---------------------------- MODULE Spec2Model ----------------------------
(***************************************************************************)
(* Model of the loom-punchcards core: the card builder (Generator), Card   *)
(* validation, the text exporter and parser, and the SVG exporter.         *)
(*                                                                         *)
(* Go slices are modelled as sequences (1-based: Go index i is i+1 here).  *)
(* A Go error value is a record with a "kind" field; kind "nil" is the nil *)
(* error and kind "panic" is a run-time panic (the call does not return).  *)
(* A string is a sequence of one-character strings, so that formatting and *)
(* parsing are computed character by character.                            *)
(***************************************************************************)
EXTENDS Integers, Sequences, FiniteSets, TLC

VARIABLES
    op,       \* the call that produced this state
    gen,      \* Generator.Dimensions of the generator used
    matrix,   \* the grid passed to Generate
    cards,    \* the caller's card slice
    exp,      \* the exporter's settings
    out,      \* the bytes the text exporter wrote to its io.Writer
    svg,      \* the elements the SVG exporter wrote to its io.Writer
    content,  \* the string passed to Parse
    res,      \* the *ParseResult returned by Parse
    lineIdx,  \* Parse's lineIdx when it returned: the lines it consumed
    meta,     \* the *Metadata returned by GenerateMetadata
    img,      \* the *image.Gray passed to resize or applyDithering
    proc,     \* the Processor's Width, Height and ColorMode
    pixels,   \* applyDithering's working grid when it returned
    grid,     \* the grid returned by resize or applyDithering
    heap,     \* the objects allocated: heap[r] is the value behind reference r
    orig,     \* a *Card, its Matrix a sequence of row references
    clone,    \* the *Card returned by orig.Clone()
    req,      \* the form values of the HTTP request being served
    resp,     \* the response written to it
    inv,      \* the pipeline invocations running side by side
    visit,    \* the number of cells applyDithering has quantized
    err       \* the error returned by the call

vars == <<op, gen, matrix, cards, exp, out, svg, content, res, lineIdx, meta, img,
          proc, pixels, grid, heap, orig, clone, req, resp, inv, visit, err>>

\* the variables of the image stages
imageVars == <<img, proc, pixels, grid>>

\* the variables of the card objects, the request handlers, the concurrent
\* invocations and the dithering loop
restVars == <<heap, orig, clone, req, resp, inv, visit>>

-----------------------------------------------------------------------------
(* Program constants *)

CardWidth == 26

CardHeight == 8

\* millimetres
HoleRadius == 2

HoleSpacing == 5

CardPadding == 10

TextHeight == 8

\* cardSpacing := 5.0, millimetres between stacked cards
CardSpacing == 5

\* 3.78 pixels per millimetre; lengths in pixels are held in thousandths
MMToPixel == 3780

\* stands for the least and the greatest int64
HugeInt == 2147483647

(* Bounds of the model *)

\* input patterns 0..NumPatterns-1 fill the grids and cards
NumPatterns == 4

\* largest side of the small cards handed to Validate
MaxDim == 2

\* largest number of rows of a grid handed to Generate
MaxGridRows == 2

\* largest side of an image handed to resize
MaxSrc == 3

\* largest target width or height handed to resize
MaxTarget == 4

\* number of gray values the images handed to applyDithering are filled with
NumGrays == 4

\* largest number of cards handed to an exporter
MaxCards == 2

\* largest number of card blocks of a text handed to Parse
MaxBlocks == 2

-----------------------------------------------------------------------------
(* Values *)

NoErr == [kind |-> "nil"]

Panic(what) == [kind |-> "panic", what |-> what]

\* the call returned a non-nil error
IsError(e) == e.kind \notin {"nil", "panic"}

NilResult == [Title |-> <<>>, Cards |-> <<>>, TotalCards |-> 0, HolesPerCard |-> 0,
              isNil |-> TRUE]

NoDims == [Width |-> 0, Height |-> 0]

NoExp == [Title |-> <<>>, HoleChar |-> "#", NoHoleChar |-> "."]

\* &Metadata{}: every field zero; AverageDensity is a fraction num/den
NoMeta ==
    [TotalCards |-> 0, CardWidth |-> 0, CardHeight |-> 0, TotalRows |-> 0,
     HolesPerCard |-> <<>>, AverageDensity |-> [num |-> 0, den |-> 1]]

\* an image of no pixels; Pix[y][x] is the gray value 0..255 of pixel (x-1, y-1)
NoImage == [Width |-> 0, Height |-> 0, Pix |-> <<>>]

NoProc == [Width |-> 0, Height |-> 0, ColorMode |-> 2]

\* a nil *Card
NoCard == [Number |-> 0, Width |-> 0, Height |-> 0, Matrix |-> <<>>]

NoRequest == [handler |-> "none", colorMode |-> <<>>]

NoResponse == [status |-> 0, colorMode |-> 0]

Min(S) == CHOOSE x \in S : \A y \in S : x <= y

Card(number, width, height, m) ==
    [Number |-> number, Width |-> width, Height |-> height, Matrix |-> m]

GetCardDimensions(cardType) ==
    IF cardType = "50x12" THEN [Width |-> 50, Height |-> 12]
    ELSE [Width |-> CardWidth, Height |-> CardHeight]

-----------------------------------------------------------------------------
(* Card.Validate *)

\* the checks of one row: its length, then its cells left to right
ValidateRow(c, y) ==
    LET row == c.Matrix[y]
        bad == {x \in 1..Len(row) : row[x] # 0 /\ row[x] # 1}
    IN  IF Len(row) # c.Width
        THEN [kind |-> "rowwidth", row |-> y - 1, got |-> Len(row), want |-> c.Width]
        ELSE IF bad # {}
        THEN [kind |-> "value", x |-> Min(bad) - 1, y |-> y - 1, val |-> row[Min(bad)]]
        ELSE NoErr

RECURSIVE ValidateRows(_, _)
ValidateRows(c, y) ==
    IF y > Len(c.Matrix) THEN NoErr
    ELSE IF ValidateRow(c, y) # NoErr THEN ValidateRow(c, y)
    ELSE ValidateRows(c, y + 1)

ValidateNoCellCheck(c) ==
    IF c.Width <= 0 \/ c.Height <= 0
    THEN [kind |-> "dimensions", width |-> c.Width, height |-> c.Height]
    ELSE IF Len(c.Matrix) # c.Height
    THEN [kind |-> "height", got |-> Len(c.Matrix), want |-> c.Height]
    ELSE IF \E y \in 1..Len(c.Matrix) : Len(c.Matrix[y]) # c.Width
    THEN [kind |-> "rowwidth"]
    ELSE NoErr

Validate(c) ==
    IF c.Width <= 0 \/ c.Height <= 0
    THEN [kind |-> "dimensions", width |-> c.Width, height |-> c.Height]
    ELSE IF Len(c.Matrix) # c.Height
    THEN [kind |-> "height", got |-> Len(c.Matrix), want |-> c.Height]
    ELSE ValidateRows(c, 1)

-----------------------------------------------------------------------------
(* Generator.Generate *)

PixelIndexColumnMajor(g, row, col) == (col - 1) * g.Height + row

\* pixelIndex := row*Width + col, for the 1-based row and col used here
PixelIndex(g, row, col) == (row - 1) * g.Width + col

NumberFromZero(k) == k - 1

\* Number: cardNum + 1, where k is the 1-based position cardNum + 1
GenerateNumber(k) == k

NeverMismatch(g, m) == FALSE

\* imageWidth != expectedWidth, the image width being the first row's length
WidthMismatch(g, m) == Len(m[1]) # g.Width * g.Height

\* the card built from source row k
GenerateCard(g, m, k) ==
    Card(GenerateNumber(k), g.Width, g.Height,
         [row \in 1..g.Height |-> [col \in 1..g.Width |->
             m[k][PixelIndex(g, row, col)]]])

\* a source row shorter than Width*Height makes sourceRow[pixelIndex] panic
Generate(g, m) ==
    IF Len(m) = 0 THEN [cards |-> <<>>, err |-> [kind |-> "empty"]]
    ELSE IF WidthMismatch(g, m)
    THEN [cards |-> <<>>,
          err |-> [kind |-> "width", actual |-> Len(m[1]),
                   expected |-> g.Width * g.Height,
                   width |-> g.Width, height |-> g.Height]]
    ELSE IF \E k \in 1..Len(m) : Len(m[k]) < g.Width * g.Height
    THEN [cards |-> <<>>, err |-> Panic("index out of range")]
    ELSE [cards |-> [k \in 1..Len(m) |-> GenerateCard(g, m, k)], err |-> NoErr]

-----------------------------------------------------------------------------
(* Strings: fmt's %d, strings.Split, HasPrefix, TrimSpace, fmt.Sscanf *)

Digits == <<"0", "1", "2", "3", "4", "5", "6", "7", "8", "9">>

IsDigit(ch) == \E d \in 1..10 : Digits[d] = ch

DigitVal(ch) == (CHOOSE d \in 1..10 : Digits[d] = ch) - 1

RECURSIVE FormatNat(_)
FormatNat(n) ==
    IF n < 10 THEN <<Digits[n + 1]>>
    ELSE FormatNat(n \div 10) \o <<Digits[(n % 10) + 1]>>

\* fmt's %d verb
FormatInt(n) == IF n < 0 THEN <<"-">> \o FormatNat(-n) ELSE FormatNat(n)

NewlinePositions(s) == {i \in 1..Len(s) : s[i] = "\n"}

RECURSIVE SplitFrom(_, _, _)
SplitFrom(s, start, nl) ==
    IF nl = {} THEN <<SubSeq(s, start, Len(s))>>
    ELSE <<SubSeq(s, start, Min(nl) - 1)>> \o SplitFrom(s, Min(nl) + 1, nl \ {Min(nl)})

\* strings.Split(s, "\n")
Split(s) == SplitFrom(s, 1, NewlinePositions(s))

HasPrefix(s, prefix) ==
    Len(s) >= Len(prefix) /\ SubSeq(s, 1, Len(prefix)) = prefix

TrimPrefix(s, prefix) ==
    IF HasPrefix(s, prefix) THEN SubSeq(s, Len(prefix) + 1, Len(s)) ELSE s

IsSpace(ch) == ch \in {" ", "\t", "\r"}

\* strings.TrimSpace(s) == ""
IsBlank(s) == \A i \in 1..Len(s) : IsSpace(s[i])

RECURSIVE DigitsValue(_, _, _, _)
DigitsValue(s, from, to, acc) ==
    IF from > to THEN acc
    ELSE DigitsValue(s, from + 1, to, acc * 10 + DigitVal(s[from]))

\* the %d verb of fmt.Sscanf reading s from position from: spaces are skipped,
\* one sign is accepted, then at least one digit is needed; next is the position
\* after the last digit
ScanInt(s, from) ==
    LET nonSpace == {i \in from..Len(s) : ~IsSpace(s[i])}
        start == IF nonSpace = {} THEN Len(s) + 1 ELSE Min(nonSpace)
        signed == start <= Len(s) /\ s[start] \in {"+", "-"}
        first == IF signed THEN start + 1 ELSE start
        stops == {i \in first..Len(s) : ~IsDigit(s[i])}
        next == IF stops = {} THEN Len(s) + 1 ELSE Min(stops)
    IN  IF next = first THEN [ok |-> FALSE, val |-> 0, next |-> next]
        ELSE [ok |-> TRUE,
              val |-> IF signed /\ s[start] = "-"
                      THEN 0 - DigitsValue(s, first, next - 1, 0)
                      ELSE DigitsValue(s, first, next - 1, 0),
              next |-> next]

TitlePrefix == <<"T", "i", "t", "l", "e", ":", " ">>

CardsPrefix == <<"C", "a", "r", "d", "s", ":", " ">>

HolesPrefix ==
    <<"H", "o", "l", "e", "s", " ", "p", "e", "r", " ", "c", "a", "r", "d", ":", " ">>

CardPrefix == <<"C", "a", "r", "d", " ">>

UntitledPattern ==
    <<"U", "n", "t", "i", "t", "l", "e", "d", " ", "P", "a", "t", "t", "e", "r", "n">>

\* fmt.Sscanf(line, "Cards: %d", &n) on a line that has the prefix "Cards: "
\* (and the same for "Holes per card: %d"): the text after the colon is scanned
ScanAfter(line, prefix) == ScanInt(line, Len(prefix))

\* fmt.Sscanf(line, "Card %d:", &n) on a line that has the prefix "Card ": the
\* colon of the format must follow the digits
ScanCardHeader(line) ==
    LET r == ScanInt(line, Len(CardPrefix))
    IN  IF r.ok /\ r.next <= Len(line) /\ line[r.next] = ":" THEN r
        ELSE [ok |-> FALSE, val |-> IF r.ok THEN r.val ELSE 0, next |-> r.next]

-----------------------------------------------------------------------------
(* TextExporter.ExportCards *)

NewTextExporter == [Title |-> <<>>, HoleChar |-> "#", NoHoleChar |-> "."]

TextTitle(e) == IF e.Title # <<>> THEN e.Title ELSE UntitledPattern

\* the four header lines
TextHeader(e, cs) ==
    TitlePrefix \o TextTitle(e) \o <<"\n">>
    \o CardsPrefix \o FormatInt(Len(cs)) \o <<"\n">>
    \o HolesPrefix \o FormatInt(cs[1].Width * cs[1].Height) \o <<"\n">>
    \o <<"\n">>

TextRow(e, c, y) ==
    [x \in 1..c.Width |-> IF c.Matrix[y][x] = 1 THEN e.HoleChar ELSE e.NoHoleChar]
    \o <<"\n">>

RECURSIVE TextRows(_, _, _)
TextRows(e, c, y) ==
    IF y > c.Height THEN <<>> ELSE TextRow(e, c, y) \o TextRows(e, c, y + 1)

\* "Card <Number>:" and the Height rows of a card
TextCard(e, c) ==
    CardPrefix \o FormatInt(c.Number) \o <<":", "\n">> \o TextRows(e, c, 1)

SeparatorAfterEvery(cs, i) == <<"\n">>

\* if i < len(cards)-1 { fmt.Fprintf(w, "\n") }
CardSeparator(cs, i) == IF i < Len(cs) THEN <<"\n">> ELSE <<>>

\* the loop over the cards: each card is validated when its turn comes, after
\* the header and the cards before it have been written
RECURSIVE WriteCards(_, _, _, _)
WriteCards(e, cs, i, written) ==
    IF i > Len(cs) THEN [out |-> written, err |-> NoErr]
    ELSE IF Validate(cs[i]) # NoErr
    THEN [out |-> written,
          err |-> [kind |-> "invalidcard", index |-> i, cause |-> Validate(cs[i])]]
    ELSE WriteCards(e, cs, i + 1,
                    written \o TextCard(e, cs[i]) \o CardSeparator(cs, i))

EmptyExportWritesTitle(e) ==
    [out |-> TitlePrefix \o TextTitle(e) \o <<"\n">>, err |-> [kind |-> "nocards"]]

\* if len(cards) == 0 { return fmt.Errorf("no cards to export") }
EmptyExport(e) == [out |-> <<>>, err |-> [kind |-> "nocards"]]

TextExportCards(e, cs) ==
    IF Len(cs) = 0 THEN EmptyExport(e)
    ELSE WriteCards(e, cs, 1, TextHeader(e, cs))

-----------------------------------------------------------------------------
(* TextParser.Parse *)

ParseOut(r, e, idx) == [res |-> r, err |-> e, lineIdx |-> idx]

CellOfLenient(ch) == IF ch \in {"#", "O", "o"} THEN 1 ELSE 0

\* the cell a character of a card row stands for; -1 is the default case
CellOf(ch) ==
    IF ch \in {"#", "O", "o"} THEN 1 ELSE IF ch = "." THEN 0 ELSE -1

RowWidthAtMost(line) == Len(line) <= CardWidth

\* len(line) != CardWidth is an error
RowWidthOK(line) == Len(line) = CardWidth

\* rowData := make([]int, CardWidth), then one cell per character of the line
RowData(line) ==
    [col \in 1..CardWidth |-> IF col <= Len(line) THEN CellOf(line[col]) ELSE 0]

NumberFromLabel(cardNumber, parsedCardNum) == parsedCardNum

\* Number: cardNumber
ParsedNumber(cardNumber, parsedCardNum) == cardNumber

\* the CardHeight rows of a card; idx is the 1-based position of the next line,
\* so that idx - 1 is Go's lineIdx
RECURSIVE ParseRows(_, _, _, _, _)
ParseRows(lines, idx, label, row, m) ==
    IF row > CardHeight THEN [err |-> NoErr, matrix |-> m, idx |-> idx]
    ELSE IF idx > Len(lines)
    THEN [err |-> [kind |-> "eof", card |-> label, row |-> row],
          matrix |-> <<>>, idx |-> idx]
    ELSE LET line == lines[idx]
             bad == {col \in 1..Len(line) : CellOf(line[col]) = -1}
         IN  IF ~RowWidthOK(line)
             THEN [err |-> [kind |-> "rowwidth", card |-> label, row |-> row,
                            expected |-> CardWidth, got |-> Len(line)],
                   matrix |-> <<>>, idx |-> idx + 1]
             ELSE IF bad # {}
             THEN [err |-> [kind |-> "char", char |-> line[Min(bad)],
                            card |-> label, row |-> row, col |-> Min(bad)],
                   matrix |-> <<>>, idx |-> idx + 1]
             ELSE ParseRows(lines, idx + 1, label, row + 1, Append(m, RowData(line)))

ParseFinishNoCount(r, cs, idx) == ParseOut([r EXCEPT !.Cards = cs], NoErr, idx - 1)

\* the end of Parse: the number of cards found against the Cards header
ParseFinish(r, cs, idx) ==
    IF Len(cs) # r.TotalCards
    THEN ParseOut(NilResult,
                  [kind |-> "count", expected |-> r.TotalCards, found |-> Len(cs)],
                  idx - 1)
    ELSE ParseOut([r EXCEPT !.Cards = cs], NoErr, idx - 1)

\* the loop over the card blocks
RECURSIVE ParseCards(_, _, _, _)
ParseCards(lines, idx, r, cs) ==
    IF idx > Len(lines) THEN ParseFinish(r, cs, idx)
    ELSE IF IsBlank(lines[idx]) THEN ParseCards(lines, idx + 1, r, cs)
    ELSE IF ~HasPrefix(lines[idx], CardPrefix)
    THEN IF Len(cs) = r.TotalCards THEN ParseFinish(r, cs, idx)
         ELSE ParseOut(NilResult, [kind |-> "header", line |-> idx], idx - 1)
    ELSE IF ~ScanCardHeader(lines[idx]).ok
    THEN ParseOut(NilResult, [kind |-> "cardheader", line |-> idx], idx - 1)
    ELSE LET label == ScanCardHeader(lines[idx]).val
             rows == ParseRows(lines, idx + 1, label, 1, <<>>)
             card == Card(ParsedNumber(Len(cs) + 1, label), CardWidth, CardHeight,
                          rows.matrix)
         IN  IF rows.err # NoErr THEN ParseOut(NilResult, rows.err, rows.idx - 1)
             ELSE IF Validate(card) # NoErr
             THEN ParseOut(NilResult,
                           [kind |-> "invalidcard", index |-> Len(cs) + 1,
                            cause |-> Validate(card)], rows.idx - 1)
             ELSE ParseCards(lines, rows.idx, r, Append(cs, card))

\* a parser that accepts only the hole count the exporter writes
ParseBodyFixedHoles(lines, r) ==
    LET idx == IF 4 <= Len(lines) /\ IsBlank(lines[4]) THEN 5 ELSE 4
    IN  IF r.HolesPerCard # CardWidth * CardHeight
        THEN ParseOut(NilResult, [kind |-> "holesvalue", line |-> 3], 2)
        ELSE IF r.TotalCards < 0
        THEN ParseOut(NilResult, Panic("makeslice: cap out of range"), idx - 1)
        ELSE ParseCards(lines, idx, r, <<>>)

\* after the three header lines: the blank line is skipped, the card slice is
\* made with capacity TotalCards (a negative capacity panics), the blocks are read
ParseBody(lines, r) ==
    LET idx == IF 4 <= Len(lines) /\ IsBlank(lines[4]) THEN 5 ELSE 4
    IN  IF r.TotalCards < 0
        THEN ParseOut(NilResult, Panic("makeslice: cap out of range"), idx - 1)
        ELSE ParseCards(lines, idx, r, <<>>)

ParseLines(lines) ==
    IF Len(lines) < 4 THEN ParseOut(NilResult, [kind |-> "toofew"], 0)
    ELSE IF ~HasPrefix(lines[1], TitlePrefix)
    THEN ParseOut(NilResult, [kind |-> "title", line |-> 1], 0)
    ELSE IF ~HasPrefix(lines[2], CardsPrefix)
    THEN ParseOut(NilResult, [kind |-> "cards", line |-> 2], 1)
    ELSE IF ~ScanAfter(lines[2], CardsPrefix).ok
    THEN ParseOut(NilResult, [kind |-> "cardsvalue", line |-> 2], 1)
    ELSE IF ~HasPrefix(lines[3], HolesPrefix)
    THEN ParseOut(NilResult, [kind |-> "holes", line |-> 3], 2)
    ELSE IF ~ScanAfter(lines[3], HolesPrefix).ok
    THEN ParseOut(NilResult, [kind |-> "holesvalue", line |-> 3], 2)
    ELSE ParseBody(lines,
                   [Title |-> TrimPrefix(lines[1], TitlePrefix),
                    Cards |-> <<>>,
                    TotalCards |-> ScanAfter(lines[2], CardsPrefix).val,
                    HolesPerCard |-> ScanAfter(lines[3], HolesPrefix).val,
                    isNil |-> FALSE])

Parse(c) == ParseLines(Split(c))

-----------------------------------------------------------------------------
(* SVGExporter: the document is the sequence of the elements written, pixel *)
(* lengths in thousandths of a pixel, millimetre lengths in millimetres      *)

NewSVGExporter ==
    [ShowGrid |-> TRUE, ShowNumbers |-> TRUE, HoleRadius |-> HoleRadius,
     HoleSpacing |-> HoleSpacing, Scale |-> 1, Title |-> <<>>, TotalCards |-> 0]

\* cardWidth and cardHeight, in millimetres
SVGCardWidth(e, c) == c.Width * e.HoleSpacing * e.Scale + 2 * CardPadding

SVGCardHeight(e, c) ==
    c.Height * e.HoleSpacing * e.Scale + 2 * CardPadding + TextHeight * 2

\* the cells CountHoles can read without leaving the matrix
HolesRead(c) ==
    { <<y, x>> \in (1..c.Height) \X (1..c.Width) :
        y <= Len(c.Matrix) /\ x <= Len(c.Matrix[y]) /\ c.Matrix[y][x] = 1 }

CountNoHoles(c) == c.Width * c.Height - Cardinality(HolesRead(c))

CountHoles(c) == Cardinality(HolesRead(c))

\* "Title #n/total", "Card #n/total" or "Card #n"
SVGCaption(e, c) ==
    IF e.Title # <<>> /\ e.TotalCards > 0
    THEN [form |-> "title", title |-> e.Title, number |-> c.Number,
          total |-> e.TotalCards]
    ELSE IF e.TotalCards > 0
    THEN [form |-> "cardof", title |-> <<>>, number |-> c.Number,
          total |-> e.TotalCards]
    ELSE [form |-> "card", title |-> <<>>, number |-> c.Number, total |-> 0]

\* a length printed with %.2f: thousandths rounded to hundredths
Fixed2(v) == ((v + 5) \div 10) * 10

SVGTopText(e, c, widthPx) ==
    IF e.ShowNumbers
    THEN << [el |-> "text", x |-> Fixed2(widthPx \div 2),
             y |-> Fixed2((TextHeight * MMToPixel * 8) \div 10),
             size |-> Fixed2((TextHeight * MMToPixel * 6) \div 10),
             fill |-> "black", body |-> SVGCaption(e, c)] >>
    ELSE <<>>

SVGBottomText(e, c, widthPx, heightPx) ==
    IF e.ShowNumbers
    THEN << [el |-> "text", x |-> Fixed2(widthPx \div 2),
             y |-> Fixed2(heightPx - (TextHeight * MMToPixel * 3) \div 10),
             size |-> Fixed2((TextHeight * MMToPixel * 5) \div 10),
             fill |-> "gray",
             body |-> [form |-> "info", width |-> c.Width, height |-> c.Height,
                       holes |-> CountHoles(c), number |-> c.Number]] >>
    ELSE <<>>

SVGStartX == CardPadding * MMToPixel

SVGStartY == (CardPadding + TextHeight) * MMToPixel

SVGStep(e) == e.HoleSpacing * e.Scale * MMToPixel

\* drawGrid: one vertical line per column, one horizontal line per row
DrawGrid(e, c) ==
    LET endX == SVGStartX + (c.Width - 1) * SVGStep(e)
        endY == SVGStartY + (c.Height - 1) * SVGStep(e)
    IN  << [el |-> "g", id |-> "grid"] >>
        \o [x \in 1..c.Width |->
              [el |-> "line", x1 |-> SVGStartX + (x - 1) * SVGStep(e),
               y1 |-> SVGStartY, x2 |-> SVGStartX + (x - 1) * SVGStep(e),
               y2 |-> endY]]
        \o [y \in 1..c.Height |->
              [el |-> "line", x1 |-> SVGStartX,
               y1 |-> SVGStartY + (y - 1) * SVGStep(e), x2 |-> endX,
               y2 |-> SVGStartY + (y - 1) * SVGStep(e)]]
        \o << [el |-> "/g"] >>

SVGGrid(e, c) == IF e.ShowGrid THEN DrawGrid(e, c) ELSE <<>>

\* every cell drawn as a punched hole
SVGCircleFilled(e, c, y, x) ==
    [el |-> "circle", cx |-> SVGStartX + (x - 1) * SVGStep(e),
     cy |-> SVGStartY + (y - 1) * SVGStep(e),
     r |-> e.HoleRadius * e.Scale * MMToPixel,
     fill |-> "black", stroke |-> "none"]

\* the circle of cell (y, x): filled for a cell equal to 1, a guide mark otherwise
SVGCircle(e, c, y, x) ==
    IF c.Matrix[y][x] = 1
    THEN [el |-> "circle", cx |-> Fixed2(SVGStartX + (x - 1) * SVGStep(e)),
          cy |-> Fixed2(SVGStartY + (y - 1) * SVGStep(e)),
          r |-> Fixed2(e.HoleRadius * e.Scale * MMToPixel),
          fill |-> "black", stroke |-> "none"]
    ELSE [el |-> "circle", cx |-> Fixed2(SVGStartX + (x - 1) * SVGStep(e)),
          cy |-> Fixed2(SVGStartY + (y - 1) * SVGStep(e)),
          r |-> Fixed2((e.HoleRadius * e.Scale * MMToPixel * 3) \div 10),
          fill |-> "none", stroke |-> "lightgray"]

\* the cells of the two loops, row-major, as positions 1..Width*Height
SVGCellCount(c) == IF c.Width <= 0 \/ c.Height <= 0 THEN 0 ELSE c.Width * c.Height

SVGCellRow(c, k) == ((k - 1) \div c.Width) + 1

SVGCellCol(c, k) == ((k - 1) % c.Width) + 1

\* the cells whose card.Matrix[y][x] is out of range
SVGMissing(c) ==
    { k \in 1..SVGCellCount(c) :
        \/ SVGCellRow(c, k) > Len(c.Matrix)
        \/ SVGCellCol(c, k) > Len(c.Matrix[SVGCellRow(c, k)]) }

\* the circles written, up to the first cell that is out of range
SVGCircles(e, c) ==
    [k \in 1..(IF SVGMissing(c) = {} THEN SVGCellCount(c) ELSE Min(SVGMissing(c)) - 1) |->
        SVGCircle(e, c, SVGCellRow(c, k), SVGCellCol(c, k))]

\* the caption, the grid, the circles and the footer of one card; reading a
\* cell that is out of range panics after the circles before it are written
RenderCardContent(e, c, widthPx, heightPx) ==
    IF SVGMissing(c) # {}
    THEN [svg |-> SVGTopText(e, c, widthPx) \o SVGGrid(e, c) \o SVGCircles(e, c),
          err |-> Panic("index out of range")]
    ELSE [svg |-> SVGTopText(e, c, widthPx) \o SVGGrid(e, c) \o SVGCircles(e, c)
                  \o SVGBottomText(e, c, widthPx, heightPx),
          err |-> NoErr]

SVGHeader(widthMM, heightMM, title, desc) ==
    << [el |-> "xml"],
       [el |-> "svg", width |-> widthMM, height |-> heightMM,
        viewWidth |-> widthMM * MMToPixel, viewHeight |-> heightMM * MMToPixel],
       [el |-> "title", body |-> title],
       [el |-> "desc", body |-> desc],
       [el |-> "rect", fill |-> "white"] >>

ExportCardNoValidate(e, c) ==
    LET body == RenderCardContent(e, c, SVGCardWidth(e, c) * MMToPixel,
                                  SVGCardHeight(e, c) * MMToPixel)
        head == SVGHeader(SVGCardWidth(e, c), SVGCardHeight(e, c),
                          [form |-> "card", number |-> c.Number],
                          [form |-> "info", width |-> c.Width, height |-> c.Height,
                           holes |-> CountHoles(c), number |-> c.Number])
    IN  IF body.err # NoErr THEN [svg |-> head \o body.svg, err |-> body.err]
        ELSE [svg |-> head \o body.svg \o << [el |-> "/svg"] >>, err |-> NoErr]

\* SVGExporter.ExportCard: the card is validated before anything is written
ExportCard(e, c) ==
    IF Validate(c) # NoErr
    THEN [svg |-> <<>>, err |-> [kind |-> "invalidcard", cause |-> Validate(c)]]
    ELSE ExportCardNoValidate(e, c)

\* the text of the template: Card #{{.CardNumber}}
TemplateCaption(e, c) ==
    [form |-> "card", title |-> <<>>, number |-> c.Number, total |-> 0]

\* one SVGHole per cell, row-major; lengths as the float64 values they are
TemplateHole(e, c, y, x) ==
    IF c.Matrix[y][x] = 1
    THEN [X |-> SVGStartX + (x - 1) * SVGStep(e),
          Y |-> SVGStartY + (y - 1) * SVGStep(e),
          R |-> e.HoleRadius * e.Scale * MMToPixel,
          Fill |-> "black", Stroke |-> ""]
    ELSE [X |-> SVGStartX + (x - 1) * SVGStep(e),
          Y |-> SVGStartY + (y - 1) * SVGStep(e),
          R |-> (e.HoleRadius * e.Scale * MMToPixel * 3) \div 10,
          Fill |-> "none", Stroke |-> "lightgray"]

\* SVGExporter.prepareTemplateData, for a card whose cells are all in range
PrepareTemplateData(e, c) ==
    [Width |-> SVGCardWidth(e, c), Height |-> SVGCardHeight(e, c),
     WidthPx |-> SVGCardWidth(e, c) * MMToPixel,
     HeightPx |-> SVGCardHeight(e, c) * MMToPixel,
     CardNumber |-> c.Number,
     Description |-> [form |-> "info", width |-> c.Width, height |-> c.Height,
                      holes |-> CountHoles(c), number |-> c.Number],
     ShowNumber |-> e.ShowNumbers,
     CenterX |-> (SVGCardWidth(e, c) * MMToPixel) \div 2,
     TitleY |-> (TextHeight * MMToPixel * 8) \div 10,
     TitleSize |-> (TextHeight * MMToPixel * 6) \div 10,
     Holes |-> [k \in 1..SVGCellCount(c) |->
                  TemplateHole(e, c, SVGCellRow(c, k), SVGCellCol(c, k))]]

\* <circle cx="{{.X}}" cy="{{.Y}}" r="{{.R}}" fill="{{.Fill}}" {{if .Stroke}}...
TemplateCircle(h) ==
    [el |-> "circle", cx |-> h.X, cy |-> h.Y, r |-> h.R, fill |-> h.Fill,
     stroke |-> IF h.Stroke = "" THEN "none" ELSE h.Stroke]

\* svgCardTemplate executed on data; the caption is that of card c
TemplateDocument(e, c, data) ==
    SVGHeader(data.Width, data.Height,
              [form |-> "card", number |-> data.CardNumber], data.Description)
    \o (IF data.ShowNumber
        THEN << [el |-> "text", x |-> data.CenterX, y |-> data.TitleY,
                 size |-> data.TitleSize, fill |-> "black",
                 body |-> TemplateCaption(e, c)] >>
        ELSE <<>>)
    \o [k \in 1..Len(data.Holes) |-> TemplateCircle(data.Holes[k])]
    \o << [el |-> "/svg"] >>

\* SVGExporter.ExportCardTemplate: no validation; a cell out of range panics
\* in prepareTemplateData before anything is written
ExportCardTemplate(e, c) ==
    IF SVGMissing(c) # {}
    THEN [svg |-> <<>>, err |-> Panic("index out of range")]
    ELSE [svg |-> TemplateDocument(e, c, PrepareTemplateData(e, c)), err |-> NoErr]

\* the group of a card moved down by one card too many
SVGGroupOpenOneBased(e, cs, i) ==
    [el |-> "g", id |-> cs[i].Number,
     offsetY |-> i * (SVGCardHeight(e, cs[1]) + CardSpacing) * MMToPixel]

\* <g id="card-%d" transform="translate(0, %.2f)">
SVGGroupOpen(e, cs, i) ==
    [el |-> "g", id |-> cs[i].Number,
     offsetY |-> (i - 1) * (SVGCardHeight(e, cs[1]) + CardSpacing) * MMToPixel]

\* the loop over the cards of SVGExporter.ExportCards: no card is validated
RECURSIVE SVGWriteCards(_, _, _, _)
SVGWriteCards(e, cs, i, written) ==
    IF i > Len(cs) THEN [svg |-> written \o << [el |-> "/svg"] >>, err |-> NoErr]
    ELSE LET body == RenderCardContent(e, cs[i],
                                       SVGCardWidth(e, cs[1]) * MMToPixel,
                                       SVGCardHeight(e, cs[1]) * MMToPixel)
         IN  IF body.err # NoErr
             THEN [svg |-> written \o <<SVGGroupOpen(e, cs, i)>> \o body.svg,
                   err |-> body.err]
             ELSE SVGWriteCards(e, cs, i + 1,
                                written \o <<SVGGroupOpen(e, cs, i)>> \o body.svg
                                        \o << [el |-> "/g"] >>)

\* if len(cards) == 0 { return fmt.Errorf("no cards to export") }
SVGEmptyExport(e) == [svg |-> <<>>, err |-> [kind |-> "nocards"]]

\* SVGExporter.ExportCards
SVGExportCards(e, cs) ==
    IF Len(cs) = 0 THEN SVGEmptyExport(e)
    ELSE SVGWriteCards(e, cs, 1,
            SVGHeader(SVGCardWidth(e, cs[1]),
                      Len(cs) * (SVGCardHeight(e, cs[1]) + CardSpacing) - CardSpacing,
                      [form |-> "set", number |-> Len(cs)],
                      [form |-> "set", number |-> Len(cs)]))

-----------------------------------------------------------------------------
(* The image stages: resize and applyDithering. An image is a record Width, *)
(* Height, Pix with Pix[y][x] the gray value of pixel (x-1, y-1); its bounds *)
(* start at (0, 0) as image.Decode and image.NewGray give them.             *)

\* img.At(x, y) of an *image.Gray: the zero color outside the bounds
GrayAt(im, x, y) ==
    IF 0 <= x /\ x < im.Width /\ 0 <= y /\ y < im.Height THEN im.Pix[y + 1][x + 1] ELSE 0

\* int(f) rounding to the nearest integer where the code cuts the fraction off
FloatToIntNearest(num, den) ==
    IF den > 0 THEN {(2 * num + den) \div (2 * den)}
    ELSE IF num > 0 THEN {-HugeInt, HugeInt}
    ELSE {-HugeInt, 0, HugeInt}

\* the values int(f) can take for the float64 f = num/den with num, den >= 0:
\* the integer part, or for +Inf and NaN a value that depends on the platform
\* (the least or the greatest int64, or 0 for NaN)
FloatToInt(num, den) ==
    IF den > 0 THEN {num \div den}
    ELSE IF num > 0 THEN {-HugeInt, HugeInt}
    ELSE {-HugeInt, 0, HugeInt}

Max1(v) == IF v < 1 THEN 1 ELSE v

AtLeastOne(v) == IF v = 0 THEN 1 ELSE v

\* height after "if height == 0 && width > 0 { ... }"
DerivedHeights(im, width, height) ==
    IF height = 0 /\ width > 0
    THEN { AtLeastOne(v) : v \in FloatToInt(width * im.Height, im.Width) }
    ELSE {height}

\* width after "if width == 0 && height > 0 { ... }"
DerivedWidths(im, width, height) ==
    IF width = 0 /\ height > 0
    THEN { AtLeastOne(v) : v \in FloatToInt(height * im.Width, im.Height) }
    ELSE {width}

\* the dimensions resize can arrive at before its safety check
ResizeDims(im, width, height) ==
    UNION { { [Width |-> w, Height |-> h] : w \in DerivedWidths(im, width, h) } :
            h \in DerivedHeights(im, width, height) }

\* srcX := x * srcWidth / width, srcY := y * srcHeight / height
SourceCell(im, d, x, y) == <<(x * im.Width) \div d.Width, (y * im.Height) \div d.Height>>

\* resize once its dimensions are d: the grid returned and, for every cell of
\* it, the source cell passed to img.At
Resized(im, d) ==
    IF d.Width <= 0 \/ d.Height <= 0
    THEN [grid |-> << <<GrayAt(im, 0, 0)>> >>, samples |-> << << <<0, 0>> >> >>,
          err |-> NoErr]
    ELSE IF d.Width >= HugeInt \/ d.Height >= HugeInt
    THEN [grid |-> <<>>, samples |-> <<>>,
          err |-> Panic("image: NewGray Rectangle has huge or negative dimensions")]
    ELSE [grid |-> [y \in 1..d.Height |-> [x \in 1..d.Width |->
                      GrayAt(im, SourceCell(im, d, x - 1, y - 1)[1],
                                 SourceCell(im, d, x - 1, y - 1)[2])]],
          samples |-> [y \in 1..d.Height |-> [x \in 1..d.Width |->
                      SourceCell(im, d, x - 1, y - 1)]],
          err |-> NoErr]

\* the working values of applyDithering are fractions over DitherDen(levels):
\* 255 for the gray values, levels-1 for the color levels, and one factor 16
\* for each of the at most four times an error is passed on in the images
\* used here
DitherDen(levels) == 255 * (levels - 1) * 16 * 16 * 16 * 16

\* pixels[y][x] = float64(gray.Y) / 255.0
DitherStart(im, levels) ==
    [y \in 1..im.Height |-> [x \in 1..im.Width |->
        GrayAt(im, x - 1, y - 1) * (DitherDen(levels) \div 255)]]

\* math.Round(v * (levels-1)) for v = n / DitherDen(levels): to the nearest
\* integer, halves away from zero
RoundLevel(n, levels) ==
    IF n >= 0
    THEN (n * (levels - 1) + DitherDen(levels) \div 2) \div DitherDen(levels)
    ELSE -(((-n) * (levels - 1) + DitherDen(levels) \div 2) \div DitherDen(levels))

\* newPixel := math.Round(oldPixel*float64(levels-1)) / float64(levels-1)
NewPixel(n, levels) == RoundLevel(n, levels) * (DitherDen(levels) \div (levels - 1))

\* err * weight / 16.0
ErrorShare(e, weight) == (e * weight) \div 16

\* a step that also hands a share to the cell on the left, visited before
DitherStepLeft(px, w, h, x, y, levels) ==
    LET e == px[y][x] - NewPixel(px[y][x], levels)
    IN  [yy \in 1..h |-> [xx \in 1..w |->
            IF yy = y /\ xx = x THEN NewPixel(px[y][x], levels)
            ELSE IF yy = y /\ xx = x + 1 THEN px[yy][xx] + ErrorShare(e, 7)
            ELSE IF yy = y /\ xx = x - 1 THEN px[yy][xx] + ErrorShare(e, 1)
            ELSE IF yy = y + 1 /\ xx = x - 1 THEN px[yy][xx] + ErrorShare(e, 3)
            ELSE IF yy = y + 1 /\ xx = x THEN px[yy][xx] + ErrorShare(e, 5)
            ELSE px[yy][xx]]]

\* one step of the two loops, at pixel (x, y) counted from 1
DitherStep(px, w, h, x, y, levels) ==
    LET e == px[y][x] - NewPixel(px[y][x], levels)
    IN  [yy \in 1..h |-> [xx \in 1..w |->
            IF yy = y /\ xx = x THEN NewPixel(px[y][x], levels)
            ELSE IF yy = y /\ xx = x + 1 THEN px[yy][xx] + ErrorShare(e, 7)
            ELSE IF yy = y + 1 /\ xx = x - 1 THEN px[yy][xx] + ErrorShare(e, 3)
            ELSE IF yy = y + 1 /\ xx = x THEN px[yy][xx] + ErrorShare(e, 5)
            ELSE IF yy = y + 1 /\ xx = x + 1 THEN px[yy][xx] + ErrorShare(e, 1)
            ELSE px[yy][xx]]]

\* the pixels in row-major order, from the k-th on
RECURSIVE DitherFrom(_, _, _, _, _)
DitherFrom(px, w, h, k, levels) ==
    IF k > w * h THEN px
    ELSE DitherFrom(DitherStep(px, w, h, ((k - 1) % w) + 1, ((k - 1) \div w) + 1, levels),
                    w, h, k + 1, levels)

LightIsHole(n, levels) == IF 2 * n < DitherDen(levels) THEN 0 ELSE 1

\* if pixels[y][x] < threshold { 1 } else { 0 }, threshold 0.5
Threshold(n, levels) == IF 2 * n < DitherDen(levels) THEN 1 ELSE 0

\* Processor.applyDithering: the final working grid and the binary matrix
ApplyDithering(p, im) ==
    LET levels == p.ColorMode
        px == DitherFrom(DitherStart(im, levels), im.Width, im.Height, 1, levels)
    IN  [pixels |-> px,
         grid |-> [y \in 1..im.Height |-> [x \in 1..im.Width |->
                     Threshold(px[y][x], levels)]]]

-----------------------------------------------------------------------------
(* GenerateMetadata *)

\* CountHoles reads c.Matrix[y][x] for y < Height, x < Width: a missing cell
\* is an index out of range
CountHolesPanics(c) ==
    \E y \in 1..c.Height : \E x \in 1..c.Width :
        y > Len(c.Matrix) \/ x > Len(c.Matrix[y])

\* totalHoles after the first n cards
RECURSIVE TotalHoles(_, _)
TotalHoles(cs, n) == IF n = 0 THEN 0 ELSE TotalHoles(cs, n - 1) + CountHoles(cs[n])

PossibleHolesOfOneCard(cs) == cs[1].Width * cs[1].Height

\* totalPossibleHoles := len(cards) * cards[0].Width * cards[0].Height
TotalPossibleHoles(cs) == Len(cs) * cs[1].Width * cs[1].Height

\* float64(totalHoles) / float64(totalPossibleHoles) * 100, kept as a fraction
Density(cs) ==
    IF TotalPossibleHoles(cs) > 0
    THEN [num |-> 100 * TotalHoles(cs, Len(cs)), den |-> TotalPossibleHoles(cs)]
    ELSE [num |-> 0, den |-> 1]

GenerateMetadata(cs) ==
    IF Len(cs) = 0 THEN [meta |-> NoMeta, err |-> NoErr]
    ELSE IF \E i \in 1..Len(cs) : CountHolesPanics(cs[i])
    THEN [meta |-> NoMeta, err |-> Panic("index out of range")]
    ELSE [meta |-> [TotalCards |-> Len(cs),
                    CardWidth |-> cs[1].Width,
                    CardHeight |-> cs[1].Height,
                    TotalRows |-> Len(cs) * cs[1].Height,
                    HolesPerCard |-> [i \in 1..Len(cs) |-> CountHoles(cs[i])],
                    AverageDensity |-> Density(cs)],
          err |-> NoErr]

-----------------------------------------------------------------------------
(* Inputs: grids and cards built from a few cell patterns *)

\* pattern 0 is all 0, pattern 1 all 1, pattern p >= 2 has a 1 in every p-th cell
PatternCell(p, i) ==
    IF p = 0 THEN 0 ELSE IF p = 1 THEN 1 ELSE IF (i - 1) % p = 0 THEN 1 ELSE 0

\* a cell value that names its grid row and its position in the row
TagCell(k, i) == k * 1000 + i

PatternMatrix(h, w, p) ==
    [r \in 1..h |-> [c \in 1..w |-> PatternCell(p, (r - 1) * w + c)]]

\* the last row of m made one cell shorter, one cell longer, or given a cell 2
Defect(m, d) ==
    IF Len(m) = 0 \/ d = "none" THEN m
    ELSE LET n == Len(m)
             row == m[n]
         IN  IF d = "long" THEN [m EXCEPT ![n] = Append(row, 0)]
             ELSE IF Len(row) = 0 THEN m
             ELSE IF d = "short" THEN [m EXCEPT ![n] = SubSeq(row, 1, Len(row) - 1)]
             ELSE [m EXCEPT ![n] = [row EXCEPT ![Len(row)] = 2]]

Defects == {"none", "short", "long", "cell"}

\* Card literals as the tests build them: any declared size over any matrix
SmallCards ==
    { Card(1, W, H, Defect(PatternMatrix(h, w, p), d)) :
        W \in -1..MaxDim, H \in -1..MaxDim, h \in 0..MaxDim, w \in 0..MaxDim,
        p \in 0..(NumPatterns - 1), d \in Defects }

StandardCards ==
    { Card(1, CardWidth, CardHeight, Defect(PatternMatrix(h, w, p), d)) :
        h \in {CardHeight - 1, CardHeight}, w \in {CardWidth - 1, CardWidth},
        p \in 0..(NumPatterns - 1), d \in {"none", "cell"} }

GenDims ==
    { [Width |-> 2, Height |-> 2], [Width |-> 3, Height |-> 2],
      GetCardDimensions("26x8"), GetCardDimensions("50x12") }

\* n rows of length len; the last row of a grid of several rows is ragged cells
\* longer (or shorter); tagged grids hold TagCell values instead of bits
Grid(n, len, p, ragged, tagged) ==
    [k \in 1..n |->
        [i \in 1..(IF k = n /\ k > 1 THEN len + ragged ELSE len) |->
            IF tagged THEN TagCell(k, i)
            ELSE PatternCell((p + k - 1) % NumPatterns, i)]]

GridsFor(g) ==
    { Grid(n, len, p, ragged, tagged) :
        n \in 0..MaxGridRows,
        len \in {g.Width * g.Height - 1, g.Width * g.Height, g.Width * g.Height + 1},
        p \in 0..(NumPatterns - 1), ragged \in {-1, 0, 1}, tagged \in BOOLEAN }

-----------------------------------------------------------------------------
(* Inputs: card slices handed to the exporters, texts handed to Parse *)

ExportDims ==
    { [Width |-> 2, Height |-> 2], GetCardDimensions("26x8"),
      GetCardDimensions("50x12") }

CardDefects == {"short", "long", "cell", "rows", "dims"}

\* a card of size d filled with pattern p; with a defect it fails Validate
MakeCard(number, d, p, defect) ==
    LET m == PatternMatrix(d.Height, d.Width, p)
    IN  IF defect = "rows" THEN Card(number, d.Width, d.Height, SubSeq(m, 1, d.Height - 1))
        ELSE IF defect = "dims" THEN Card(number, 0, d.Height, m)
        ELSE Card(number, d.Width, d.Height, Defect(m, defect))

\* n cards numbered first, first+1, ...; the card at position at has the defect
CardSeq(d, n, first, p, at, defect) ==
    [i \in 1..n |->
        MakeCard(first + i - 1, d, (p + i - 1) % NumPatterns,
                 IF i = at THEN defect ELSE "none")]

CardSeqs ==
    { CardSeq(d, n, first, p, at, defect) :
        d \in ExportDims, n \in 0..MaxCards, first \in {1, 5},
        p \in 0..(NumPatterns - 1), at \in 0..MaxCards, defect \in CardDefects }

MetaDims == { [Width |-> 2, Height |-> 2], [Width |-> 3, Height |-> 2] }

\* n cards, of size d1 at odd and d2 at even positions, of patterns p, p + q, ...
MetaCardSeq(n, d1, d2, p, q, at, defect) ==
    [i \in 1..n |->
        MakeCard(i, IF i % 2 = 1 THEN d1 ELSE d2, (p + (i - 1) * q) % NumPatterns,
                 IF i = at THEN defect ELSE "none")]

MetaCardSeqs ==
    { MetaCardSeq(n, d1, d2, p, q, at, defect) :
        n \in 0..MaxCards, d1 \in MetaDims, d2 \in MetaDims,
        p \in 0..(NumPatterns - 1), q \in 0..2, at \in 0..MaxCards,
        defect \in CardDefects }
    \cup { cs \in CardSeqs : Len(cs) > 0 /\ cs[1].Width = CardWidth }

\* an image whose pixels all differ: pixel (x-1, y-1) holds 10 * its rank
TaggedImage(w, h) ==
    [Width |-> w, Height |-> h,
     Pix |-> [y \in 1..h |-> [x \in 1..w |-> 10 * ((y - 1) * w + x)]]]

ResizeImages == { TaggedImage(w, h) : w \in 0..MaxSrc, h \in 0..MaxSrc }

\* gray values around the threshold and at both ends: 0, 127, 254, 125, ...
GrayOf(i) == (i * 127) % 256

\* an image of grays GrayOf(p), GrayOf(p + q), ... in row-major order
GrayImage(w, h, p, q) ==
    [Width |-> w, Height |-> h,
     Pix |-> [y \in 1..h |-> [x \in 1..w |->
                GrayOf((p + q * ((y - 1) * w + x - 1)) % NumGrays)]]]

\* width and height of the images handed to applyDithering
DitherShapes == { <<0, 0>>, <<1, 1>>, <<3, 1>>, <<1, 3>>, <<2, 2>>, <<3, 2>> }

DitherImages ==
    { GrayImage(s[1], s[2], p, q) :
        s \in DitherShapes, p \in 0..(NumGrays - 1), q \in 0..(NumGrays - 1) }

\* TwoColor, FourColor, EightColor
ColorModes == {2, 4, 8}

TextExporters ==
    { [NewTextExporter EXCEPT !.Title = t, !.HoleChar = h] :
        t \in {<<>>, <<"P", "1">>}, h \in {"#", "O"} }

SVGExporters ==
    { NewSVGExporter,
      [NewSVGExporter EXCEPT !.ShowGrid = FALSE, !.ShowNumbers = FALSE],
      [NewSVGExporter EXCEPT !.Title = <<"P", "1">>, !.TotalCards = 3, !.Scale = 2],
      [NewSVGExporter EXCEPT !.ShowGrid = FALSE, !.TotalCards = 3] }

RECURSIVE Join(_)
Join(lines) ==
    IF Len(lines) = 0 THEN <<>> ELSE lines[1] \o <<"\n">> \o Join(Tail(lines))

HoleChars == <<"#", "O", "o">>

\* row r of a 26x8 card of pattern p, written with all three hole characters
RowText(p, r) ==
    [c \in 1..CardWidth |->
        IF PatternCell(p, (r - 1) * CardWidth + c) = 1 THEN HoleChars[(c % 3) + 1]
        ELSE "."]

BadRow(row, kind) ==
    IF kind = "short" THEN SubSeq(row, 1, Len(row) - 1)
    ELSE IF kind = "long" THEN Append(row, ".")
    ELSE IF kind = "digit" THEN [row EXCEPT ![Len(row)] = "1"]
    ELSE [row EXCEPT ![3] = "x"]

BlockDefects == {"short", "long", "char", "digit", "cut"}

HeaderLine(label) == CardPrefix \o FormatInt(label) \o <<":">>

\* a card block: the header and CardHeight rows, the defect in row i + 1 of
\* block i; a cut block lacks its last row
BlockLines(i, label, p, defect) ==
    <<HeaderLine(label)>>
    \o [r \in 1..(IF defect = "cut" THEN CardHeight - 1 ELSE CardHeight) |->
          IF defect \in {"short", "long", "char", "digit"} /\ r = i + 1
          THEN BadRow(RowText(p, r), defect) ELSE RowText(p, r)]

BlockLabel(scheme, n, i) ==
    IF scheme = "seq" THEN i ELSE IF scheme = "rev" THEN n + 1 - i ELSE 7

StrayLine == <<"e", "n", "d">>

RECURSIVE BlocksText(_, _, _, _, _, _, _)
BlocksText(i, n, scheme, sep, strayAt, defAt, defKind) ==
    IF i > n THEN (IF strayAt = n + 1 THEN <<StrayLine>> ELSE <<>>)
    ELSE (IF strayAt = i THEN <<StrayLine>> ELSE <<>>)
         \o BlockLines(i, BlockLabel(scheme, n, i), i % NumPatterns,
                       IF i = defAt THEN defKind ELSE "none")
         \o (IF sep /\ i < n THEN << <<>> >> ELSE <<>>)
         \o BlocksText(i + 1, n, scheme, sep, strayAt, defAt, defKind)

\* a text: the three header lines, a blank line if sep, n blocks
TextInput(n, scheme, count, holes, sep, strayAt, defAt, defKind) ==
    Join(<<TitlePrefix \o <<"T">>,
           CardsPrefix \o FormatInt(count),
           HolesPrefix \o FormatInt(holes)>>
         \o (IF sep THEN << <<>> >> ELSE <<>>)
         \o BlocksText(1, n, scheme, sep, strayAt, defAt, defKind))

TextInputs ==
    { TextInput(n, scheme, count, holes, sep, strayAt, defAt, defKind) :
        n \in 0..MaxBlocks, scheme \in {"seq", "rev", "dup"},
        count \in -1..(MaxBlocks + 1), holes \in {CardWidth * CardHeight, 7},
        sep \in BOOLEAN, strayAt \in 0..(MaxBlocks + 1), defAt \in 0..MaxBlocks,
        defKind \in BlockDefects }

\* texts whose header lines are wrong
BadHeaderInputs ==
    { <<>>,
      Join(<<HeaderLine(1), RowText(1, 1)>>),
      Join(<<TitlePrefix, CardsPrefix \o <<"x">>, HolesPrefix \o <<"7">>, <<>> >>),
      Join(<<TitlePrefix, <<"C", "a", "r", "d", "s">>, HolesPrefix \o <<"7">>, <<>> >>),
      Join(<<TitlePrefix, CardsPrefix \o <<"1">>, HolesPrefix, <<>> >>),
      Join(<<TitlePrefix, CardsPrefix \o <<"1">>, <<"H">>, <<>> >>) }

-----------------------------------------------------------------------------
(* The state machine: each action is one call made by a caller *)

Init ==
    /\ op = "init"
    /\ gen = NoDims
    /\ matrix = <<>>
    /\ cards = <<>>
    /\ exp = NoExp
    /\ out = <<>>
    /\ svg = <<>>
    /\ content = <<>>
    /\ res = NilResult
    /\ lineIdx = 0
    /\ meta = NoMeta
    /\ img = NoImage
    /\ proc = NoProc
    /\ pixels = <<>>
    /\ grid = <<>>
    /\ heap = <<>>
    /\ orig = NoCard
    /\ clone = NoCard
    /\ req = NoRequest
    /\ resp = NoResponse
    /\ inv = <<>>
    /\ visit = 0
    /\ err = NoErr

\* err := card.Validate()
CallValidate(c) ==
    /\ op = "init"
    /\ op' = "Validate"
    /\ cards' = <<c>>
    /\ err' = Validate(c)
    /\ gen' = NoDims /\ matrix' = <<>> /\ exp' = NoExp /\ out' = <<>>
    /\ svg' = <<>> /\ content' = <<>> /\ res' = NilResult /\ lineIdx' = 0
    /\ meta' = NoMeta /\ UNCHANGED <<imageVars, restVars>>

\* cards, err := (&Generator{Dimensions: g}).Generate(m)
CallGenerate(g, m) ==
    /\ op = "init"
    /\ op' = "Generate"
    /\ gen' = g
    /\ matrix' = m
    /\ cards' = Generate(g, m).cards
    /\ err' = Generate(g, m).err
    /\ exp' = NoExp /\ out' = <<>> /\ svg' = <<>> /\ content' = <<>>
    /\ res' = NilResult /\ lineIdx' = 0
    /\ meta' = NoMeta /\ UNCHANGED <<imageVars, restVars>>

\* the caller is done with the results and starts afresh
Return ==
    /\ op # "init"
    /\ op' = "init"
    /\ gen' = NoDims /\ matrix' = <<>> /\ cards' = <<>> /\ exp' = NoExp
    /\ out' = <<>> /\ svg' = <<>> /\ content' = <<>> /\ res' = NilResult /\ lineIdx' = 0
    /\ meta' = NoMeta /\ img' = NoImage /\ proc' = NoProc /\ pixels' = <<>> /\ grid' = <<>>
    /\ heap' = <<>> /\ orig' = NoCard /\ clone' = NoCard
    /\ req' = NoRequest /\ resp' = NoResponse /\ inv' = <<>> /\ visit' = 0
    /\ err' = NoErr

NextCard ==
    \/ op = "init" /\ \E c \in SmallCards \cup StandardCards : CallValidate(c)
    \/ Return

SpecCard == Init /\ [][NextCard]_vars

NextGen ==
    \/ op = "init" /\ \E g \in GenDims : \E m \in GridsFor(g) : CallGenerate(g, m)
    \/ Return

SpecGen == Init /\ [][NextGen]_vars

-----------------------------------------------------------------------------
(* Claims about Generate and Validate *)

Rectangular(m, n) == \A k \in 1..Len(m) : Len(m[k]) = n

\* C2: from a grid of N >= 1 rows, each of length Width*Height, Generate returns
\* exactly N cards, and the card at position i has Number i (1..N in row order)
\* and the generator's Width and Height.
C2_GenerateCountAndNumbers ==
    (op = "Generate" /\ Len(matrix) >= 1
        /\ Rectangular(matrix, gen.Width * gen.Height))
    => /\ err = NoErr
       /\ Len(cards) = Len(matrix)
       /\ \A i \in 1..Len(cards) :
            /\ cards[i].Number = i
            /\ cards[i].Width = gen.Width
            /\ cards[i].Height = gen.Height

C2_Witness ==
    /\ op = "Generate" /\ err = NoErr
    /\ gen = GetCardDimensions("50x12")
    /\ Len(matrix) = 2 /\ Len(cards) = 2 /\ cards[2].Number = 2

\* the cells of all the cards that hold value v, as <<card, row, col>>
CellsHolding(v) ==
    { <<k, r, c>> \in (1..Len(cards)) \X (1..gen.Height) \X (1..gen.Width) :
        cards[k].Matrix[r][c] = v }

\* C3: card k's Matrix[row][col] is grid[k][row*Width + col] (0-based), the card
\* matrix has Height rows of Width cells, and every cell of source row k lands
\* in exactly one cell of card k and in no other card.
C3_GenerateReshapesRowMajor ==
    (op = "Generate" /\ Len(matrix) >= 1
        /\ Rectangular(matrix, gen.Width * gen.Height))
    => /\ \A k \in 1..Len(cards) :
            /\ Len(cards[k].Matrix) = gen.Height
            /\ \A row \in 1..gen.Height :
                /\ Len(cards[k].Matrix[row]) = gen.Width
                /\ \A col \in 1..gen.Width :
                     cards[k].Matrix[row][col]
                        = matrix[k][(row - 1) * gen.Width + col]
       /\ \A k \in 1..Len(matrix) : \A i \in 1..Len(matrix[k]) :
            matrix[k][i] = TagCell(k, i) =>
                /\ Cardinality(CellsHolding(matrix[k][i])) = 1
                /\ \A cell \in CellsHolding(matrix[k][i]) : cell[1] = k

C3_Witness ==
    /\ op = "Generate" /\ err = NoErr
    /\ gen = [Width |-> 3, Height |-> 2]
    /\ Len(matrix) = 2 /\ matrix[2][4] = TagCell(2, 4)
    /\ cards[2].Matrix[2][1] = TagCell(2, 4)

\* C4: Generate on a grid of zero rows returns an error and no cards; on a grid
\* whose width differs from Width*Height it returns another error, which states
\* the actual and the expected width, and no cards.
C4_GenerateErrors ==
    op = "Generate" =>
       /\ Len(matrix) = 0 => err.kind = "empty" /\ cards = <<>>
       /\ (Len(matrix) > 0 /\ Len(matrix[1]) # gen.Width * gen.Height) =>
            /\ err.kind = "width"
            /\ err.actual = Len(matrix[1])
            /\ err.expected = gen.Width * gen.Height
            /\ cards = <<>>

C4_Witness ==
    /\ op = "Generate" /\ Len(matrix) = 2
    /\ gen = GetCardDimensions("26x8")
    /\ Len(matrix[1]) = CardWidth * CardHeight + 1
    /\ err.kind = "width" /\ err.actual = 209 /\ err.expected = 208

WellFormed(c) ==
    /\ c.Width > 0
    /\ c.Height > 0
    /\ Len(c.Matrix) = c.Height
    /\ \A y \in 1..Len(c.Matrix) :
        /\ Len(c.Matrix[y]) = c.Width
        /\ \A x \in 1..Len(c.Matrix[y]) : c.Matrix[y][x] \in {0, 1}

\* C5: Validate returns nil exactly when Width > 0, Height > 0, the matrix has
\* Height rows, every row has Width cells and every cell is 0 or 1; otherwise it
\* returns an error.
C5_ValidateIff ==
    op = "Validate" =>
       /\ err = NoErr <=> WellFormed(cards[1])
       /\ ~WellFormed(cards[1]) => IsError(err)

C5_Witness ==
    /\ op = "Validate" /\ err.kind = "value"
    /\ cards[1].Width = 2 /\ cards[1].Height = 2
    /\ Len(cards[1].Matrix) = 2 /\ cards[1].Matrix[2][2] = 2

-----------------------------------------------------------------------------
(* Exporting and parsing *)

\* cards := []*Card{...}
NewCards(cs) ==
    /\ op = "init"
    /\ op' = "NewCards"
    /\ cards' = cs
    /\ UNCHANGED <<gen, matrix, exp, out, svg, content, res, lineIdx, err, meta, imageVars, restVars>>

\* var buf bytes.Buffer; err := e.ExportCards(cards, &buf)
CallTextExportCards(e) ==
    /\ op = "NewCards"
    /\ op' = "TextExportCards"
    /\ exp' = e
    /\ LET r == TextExportCards(e, cards)
       IN  out' = r.out /\ err' = r.err
    /\ UNCHANGED <<gen, matrix, cards, svg, content, res, lineIdx, meta, imageVars, restVars>>

\* result, err := parser.Parse(buf.String())
CallParseExported ==
    /\ op = "TextExportCards"
    /\ op' = "ParseExported"
    /\ content' = out
    /\ LET r == Parse(out)
       IN  res' = r.res /\ lineIdx' = r.lineIdx /\ err' = r.err
    /\ UNCHANGED <<gen, matrix, cards, exp, out, svg, meta, imageVars, restVars>>

\* result, err := parser.Parse(input)
CallParse(c) ==
    /\ op = "init"
    /\ op' = "Parse"
    /\ content' = c
    /\ LET r == Parse(c)
       IN  res' = r.res /\ lineIdx' = r.lineIdx /\ err' = r.err
    /\ UNCHANGED <<gen, matrix, cards, exp, out, svg, meta, imageVars, restVars>>

\* var buf bytes.Buffer; err := e.ExportCard(cards[i], &buf)
CallSVGExportCard(e, i) ==
    /\ op = "NewCards"
    /\ i \in 1..Len(cards)
    /\ op' = "SVGExportCard"
    /\ exp' = e
    /\ cards' = <<cards[i]>>
    /\ LET r == ExportCard(e, cards[i])
       IN  svg' = r.svg /\ err' = r.err
    /\ UNCHANGED <<gen, matrix, out, content, res, lineIdx, meta, imageVars, restVars>>

\* var buf bytes.Buffer; err := e.ExportCards(cards, &buf)
CallSVGExportCards(e) ==
    /\ op = "NewCards"
    /\ op' = "SVGExportCards"
    /\ exp' = e
    /\ LET r == SVGExportCards(e, cards)
       IN  svg' = r.svg /\ err' = r.err
    /\ UNCHANGED <<gen, matrix, cards, out, content, res, lineIdx, meta, imageVars, restVars>>

NextExport ==
    \/ op = "init" /\ \E cs \in CardSeqs : NewCards(cs)
    \/ \E e \in TextExporters : CallTextExportCards(e)
    \/ CallParseExported
    \/ \E e \in SVGExporters : \E i \in 1..MaxCards : CallSVGExportCard(e, i)
    \/ \E e \in SVGExporters : CallSVGExportCards(e)
    \/ Return

SpecExport == Init /\ [][NextExport]_vars

\* var buf bytes.Buffer; err := exporter.ExportCardTemplate(card, &buf)
CallSVGExportCardTemplate(e, i) ==
    /\ op = "NewCards"
    /\ i \in 1..Len(cards)
    /\ op' = "SVGExportCardTemplate"
    /\ exp' = e
    /\ cards' = <<cards[i]>>
    /\ LET r == ExportCardTemplate(e, cards[i])
       IN  svg' = r.svg /\ err' = r.err
    /\ UNCHANGED <<gen, matrix, out, content, res, lineIdx, meta, imageVars, restVars>>

NextTemplate ==
    \/ op = "init" /\ \E cs \in MetaCardSeqs : NewCards(cs)
    \/ \E e \in SVGExporters : \E i \in 1..MaxCards : CallSVGExportCardTemplate(e, i)
    \/ Return

SpecTemplate == Init /\ [][NextTemplate]_vars

NextParse ==
    \/ op = "init" /\ \E c \in TextInputs \cup BadHeaderInputs : CallParse(c)
    \/ Return

SpecParse == Init /\ [][NextParse]_vars

-----------------------------------------------------------------------------
(* Claims about the exporters *)

AllValid(cs) == \A i \in 1..Len(cs) : Validate(cs[i]) = NoErr

SameDimensions(cs) ==
    \A i \in 1..Len(cs) : cs[i].Width = cs[1].Width /\ cs[i].Height = cs[1].Height

NumberedFromOne(cs) == \A i \in 1..Len(cs) : cs[i].Number = i

\* C1: for any non-empty sequence of cards that each pass Validate and share
\* their dimensions (here numbered 1..N, as Generate numbers them), Parse of
\* the text written by TextExporter.ExportCards succeeds and returns as many
\* cards, with equal matrices and equal card numbers.
C1_RoundTrip ==
    (/\ op = "ParseExported"
     /\ Len(cards) >= 1
     /\ AllValid(cards) /\ SameDimensions(cards) /\ NumberedFromOne(cards))
    => /\ err = NoErr
       /\ ~res.isNil
       /\ Len(res.Cards) = Len(cards)
       /\ \A i \in 1..Len(cards) :
            /\ res.Cards[i].Matrix = cards[i].Matrix
            /\ res.Cards[i].Number = cards[i].Number

\* C6: ExportCards on an empty card sequence, on the SVG exporter and on the
\* text exporter, returns an error and writes nothing to the writer.
C6_EmptyExportWritesNothing ==
    /\ (op = "TextExportCards" /\ Len(cards) = 0) => (IsError(err) /\ out = <<>>)
    /\ (op = "SVGExportCards" /\ Len(cards) = 0) => (IsError(err) /\ svg = <<>>)

C6_Witness ==
    /\ op = "SVGExportCards"
    /\ Len(cards) = 0
    /\ err.kind = "nocards"
    /\ svg = <<>>
    /\ exp.Title # <<>>

PositiveDimensions(cs) == \A i \in 1..Len(cs) : cs[i].Width > 0 /\ cs[i].Height > 0

\* C7: every SVG export operation, ExportCard and ExportCards, does not
\* return nil when a card it is given fails Validate by its row count, by
\* the length of a row or by a cell outside {0,1}.
C7_SVGExportRejectsInvalidCards ==
    (/\ op \in {"SVGExportCard", "SVGExportCards"}
     /\ PositiveDimensions(cards) /\ ~AllValid(cards))
    => err # NoErr

\* C8: when a card of the sequence passed to TextExporter.ExportCards fails
\* Validate, ExportCards returns an error and nothing has been written.
C8_TextExportValidatesBeforeWriting ==
    (op = "TextExportCards" /\ Len(cards) >= 1 /\ ~AllValid(cards))
    => (IsError(err) /\ out = <<>>)

-----------------------------------------------------------------------------
(* Claims about Parse *)

\* the 'Card <n>:' lines among the first n of the lines L
HeadersIn(L, n) ==
    { k \in 4..n : HasPrefix(L[k], CardPrefix) /\ ScanCardHeader(L[k]).ok }

\* the position of header k among the headers H
BlockOrder(H, k) == Cardinality({ j \in H : j <= k })

HoleOrNot(ch) == IF ch \in {"#", "O", "o"} THEN 1 ELSE 0

\* C9: on success the cards returned by Parse are numbered 1..N in the order
\* their blocks appear in the input, whatever the 'Card <n>:' labels carry:
\* the card at position i has Number i and the rows of the i-th block. (A row
\* that Parse accepts starts with a hole or no-hole character, so the
\* 'Card <n>:' lines among the lines read are the block headers.)
C9_ParseNumbersInBlockOrder ==
    (op = "Parse" /\ err = NoErr)
    => LET L == Split(content)
           H == HeadersIn(L, lineIdx)
       IN  /\ Len(res.Cards) = Cardinality(H)
           /\ \A i \in 1..Len(res.Cards) : res.Cards[i].Number = i
           /\ \A k \in H : \A r \in 1..CardHeight : \A x \in 1..CardWidth :
                res.Cards[BlockOrder(H, k)].Matrix[r][x] = HoleOrNot(L[k + r][x])

C9_Witness ==
    /\ op = "Parse"
    /\ err = NoErr
    /\ Len(res.Cards) = 2
    /\ res.Cards[1].Number = 1 /\ res.Cards[2].Number = 2
    /\ res.Cards[1].Matrix # res.Cards[2].Matrix
    /\ LET L == Split(content)
           H == HeadersIn(L, lineIdx)
       IN  /\ \E k \in H : BlockOrder(H, k) = 1 /\ ScanCardHeader(L[k]).val = 2
           /\ \E k \in H : BlockOrder(H, k) = 2 /\ ScanCardHeader(L[k]).val = 1

\* C10 as stated: if any of the CardHeight lines following a 'Card <n>:' line
\* of the text has a length other than CardWidth, Parse does not succeed and
\* returns no ParseResult.
C10_AnyWrongRowFailsParse ==
    op = "Parse"
    => LET L == Split(content)
           H == HeadersIn(L, Len(L))
       IN  (\E k \in H : \E r \in 1..CardHeight :
                k + r <= Len(L) /\ Len(L[k + r]) # CardWidth)
           => (err # NoErr /\ res.isNil)

\* C10, amended: if a line that Parse reads among the CardHeight lines after
\* a 'Card <n>:' header it has accepted has a length other than CardWidth,
\* Parse returns an error carrying the label n, the 1-based row, the expected
\* and the actual length, and returns no ParseResult; on success every row of
\* every returned card has CardWidth cells, read from a line of exactly
\* CardWidth characters.
C10_WrongRowReadFailsParse ==
    op = "Parse"
    => LET L == Split(content)
           H == HeadersIn(L, lineIdx)
       IN  /\ \A k \in H : \A r \in 1..CardHeight :
                (k + r <= lineIdx /\ Len(L[k + r]) # CardWidth)
                => /\ err = [kind |-> "rowwidth",
                             card |-> ScanCardHeader(L[k]).val,
                             row |-> r, expected |-> CardWidth,
                             got |-> Len(L[k + r])]
                   /\ res.isNil
           /\ err = NoErr
              => \A k \in H : \A r \in 1..CardHeight :
                   /\ Len(L[k + r]) = CardWidth
                   /\ Len(res.Cards[BlockOrder(H, k)].Matrix[r]) = CardWidth

C10_Witness ==
    /\ op = "Parse"
    /\ err.kind = "rowwidth"
    /\ err.card = 7 /\ err.row = 3
    /\ err.got = CardWidth - 1
    /\ res.isNil
    /\ Cardinality(HeadersIn(Split(content), lineIdx)) = 2

\* C11: in a card row Parse maps '#', 'O' and 'o' to 1 and '.' to 0; for any
\* other character in a row of CardWidth characters that it reads, it returns
\* an error carrying the character, the card label, the 1-based row and the
\* 1-based column of the first such character, and no result; on success
\* every character of every row read is one of the four, mapped as said.
C11_ParseMapsRowCharacters ==
    op = "Parse"
    => LET L == Split(content)
           H == HeadersIn(L, lineIdx)
           Other(line) == { x \in 1..Len(line) : line[x] \notin {"#", "O", "o", "."} }
       IN  /\ \A k \in H : \A r \in 1..CardHeight :
                (k + r <= lineIdx /\ Len(L[k + r]) = CardWidth /\ Other(L[k + r]) # {})
                => /\ err = [kind |-> "char",
                             char |-> L[k + r][Min(Other(L[k + r]))],
                             card |-> ScanCardHeader(L[k]).val,
                             row |-> r, col |-> Min(Other(L[k + r]))]
                   /\ res.isNil
           /\ err = NoErr
              => \A k \in H : \A r \in 1..CardHeight : \A x \in 1..CardWidth :
                   LET cell == res.Cards[BlockOrder(H, k)].Matrix[r][x]
                   IN  /\ L[k + r][x] \in {"#", "O", "o", "."}
                       /\ cell = 1 <=> L[k + r][x] \in {"#", "O", "o"}
                       /\ cell = 0 <=> L[k + r][x] = "."

\* a text is parsed whose second block has a row holding all four characters
C11_Witness ==
    /\ op = "Parse"
    /\ err = NoErr
    /\ Len(res.Cards) = 2
    /\ LET L == Split(content)
           H == HeadersIn(L, lineIdx)
       IN  \E k \in H : \E r \in 1..CardHeight :
             /\ BlockOrder(H, k) = 2
             /\ \A ch \in {"#", "O", "o", "."} : \E x \in 1..CardWidth : L[k + r][x] = ch
             /\ \E x \in 1..CardWidth : res.Cards[2].Matrix[r][x] = 0
             /\ \E x \in 1..CardWidth : res.Cards[2].Matrix[r][x] = 1


\* the integer of the 'Cards:' line, when the text has one that can be read
DeclaresCount(L) ==
    Len(L) >= 4 /\ HasPrefix(L[2], CardsPrefix) /\ ScanAfter(L[2], CardsPrefix).ok

DeclaredCount(L) == ScanAfter(L[2], CardsPrefix).val

\* the 'Card <n>:' lines of the text that are followed by CardHeight lines of
\* CardWidth hole or no-hole characters
CompleteBlocks(L) ==
    { k \in HeadersIn(L, Len(L)) :
        /\ k + CardHeight <= Len(L)
        /\ \A r \in 1..CardHeight :
             /\ Len(L[k + r]) = CardWidth
             /\ \A x \in 1..CardWidth : L[k + r][x] \in {"#", "O", "o", "."} }

BlocksRead(L, n) == { k \in CompleteBlocks(L) : k + CardHeight <= n }

\* C13: once Parse has collected as many cards as the 'Cards:' line declares
\* (one or more), it reads no further 'Card <n>:' block: the complete blocks
\* it has read are never more than the declared count.
C13_ParseStopsAtDeclaredCount ==
    op = "Parse"
    => LET L == Split(content)
       IN  (DeclaresCount(L) /\ DeclaredCount(L) >= 1)
           => Cardinality(BlocksRead(L, lineIdx)) <= DeclaredCount(L)


-----------------------------------------------------------------------------
(* Claims about the text written by TextExporter.ExportCards *)

\* the line of the text on which the block of card i starts, for cards of
\* height h: four header lines, then h + 1 lines and a blank line per card
BlockStart(i, h) == 5 + (i - 1) * (h + 2)

\* C14: for a non-empty sequence of N valid cards of one size Width x Height,
\* ExportCards writes the 'Title: ' line (the title, or 'Untitled Pattern'),
\* 'Cards: N', 'Holes per card: Width*Height', a blank line, and for each
\* card a 'Card <Number>:' line and Height lines of Width characters (hole
\* character for 1, no-hole character for 0), one blank line between
\* consecutive cards and none after the last: the text ends with the newline
\* of the last row.
C14_TextExportFormat ==
    (/\ op = "TextExportCards"
     /\ Len(cards) >= 1 /\ AllValid(cards) /\ SameDimensions(cards))
    => LET L == Split(out)
           N == Len(cards)
           W == cards[1].Width
           H == cards[1].Height
       IN  /\ err = NoErr
           /\ Len(L) = 4 + N * (H + 1) + (N - 1) + 1
           /\ L[1] = TitlePrefix \o (IF exp.Title = <<>> THEN UntitledPattern ELSE exp.Title)
           /\ L[2] = CardsPrefix \o FormatNat(N)
           /\ L[3] = HolesPrefix \o FormatNat(W * H)
           /\ L[4] = <<>>
           /\ L[Len(L)] = <<>>
           /\ \A i \in 1..N :
                /\ L[BlockStart(i, H)] = CardPrefix \o FormatNat(cards[i].Number) \o <<":">>
                /\ \A y \in 1..H :
                     /\ Len(L[BlockStart(i, H) + y]) = W
                     /\ \A x \in 1..W :
                          L[BlockStart(i, H) + y][x] =
                            IF cards[i].Matrix[y][x] = 1 THEN exp.HoleChar
                            ELSE exp.NoHoleChar
                /\ i < N => L[BlockStart(i, H) + H + 1] = <<>>

\* two 50x12 cards numbered 5 and 6, written with a title and 'O' for holes
C14_Witness ==
    /\ op = "TextExportCards"
    /\ err = NoErr
    /\ Len(cards) = 2 /\ AllValid(cards)
    /\ cards[1].Width = 50 /\ cards[1].Height = 12 /\ cards[1].Number = 5
    /\ exp.Title # <<>> /\ exp.HoleChar = "O"
    /\ \E y \in 1..12 : \E x \in 1..50 : cards[2].Matrix[y][x] = 1
    /\ \E y \in 1..12 : \E x \in 1..50 : cards[2].Matrix[y][x] = 0
    /\ Len(Split(out)) = 4 + 2 * 13 + 1 + 1


-----------------------------------------------------------------------------
(* Metadata *)

\* meta := punchcard.GenerateMetadata(cards)
CallGenerateMetadata(cs) ==
    /\ op = "init"
    /\ op' = "GenerateMetadata"
    /\ cards' = cs
    /\ LET r == GenerateMetadata(cs)
       IN  meta' = r.meta /\ err' = r.err
    /\ UNCHANGED <<gen, matrix, exp, out, svg, content, res, lineIdx, imageVars, restVars>>

NextMeta ==
    \/ op = "init" /\ \E cs \in MetaCardSeqs : CallGenerateMetadata(cs)
    \/ Return

SpecMeta == Init /\ [][NextMeta]_vars

\* the cells of a card's matrix that hold v
CellsOf(c, v) ==
    { <<y, x>> \in (1..Len(c.Matrix)) \X (1..c.Width) :
        x <= Len(c.Matrix[y]) /\ c.Matrix[y][x] = v }

AllCells(cs, v) ==
    \A i \in 1..Len(cs) : Cardinality(CellsOf(cs[i], v)) = cs[i].Width * cs[i].Height

\* C15 as stated: for any non-empty sequence of valid cards the AverageDensity
\* of GenerateMetadata lies in [0,100].
C15_DensityInRange ==
    (op = "GenerateMetadata" /\ Len(cards) >= 1 /\ AllValid(cards))
    => /\ err = NoErr
       /\ 0 <= meta.AverageDensity.num
       /\ meta.AverageDensity.num <= 100 * meta.AverageDensity.den

\* C15, amended: for any non-empty sequence of valid cards that all have the
\* dimensions of the first card, the AverageDensity lies in [0,100]; it is
\* exactly 0 when every cell of every card is 0 and exactly 100 when every
\* cell of every card is 1.
C15_DensityInRangeSameDimensions ==
    (/\ op = "GenerateMetadata"
     /\ Len(cards) >= 1 /\ AllValid(cards) /\ SameDimensions(cards))
    => /\ err = NoErr
       /\ meta.AverageDensity.den > 0
       /\ 0 <= meta.AverageDensity.num
       /\ meta.AverageDensity.num <= 100 * meta.AverageDensity.den
       /\ AllCells(cards, 0) => meta.AverageDensity.num = 0
       /\ AllCells(cards, 1) => meta.AverageDensity.num = 100 * meta.AverageDensity.den

\* two all-one cards of one size: density exactly 100
C15_Witness ==
    /\ op = "GenerateMetadata"
    /\ err = NoErr
    /\ Len(cards) = 2 /\ AllValid(cards) /\ SameDimensions(cards)
    /\ AllCells(cards, 1)
    /\ meta.AverageDensity.num = 100 * meta.AverageDensity.den
    /\ meta.AverageDensity.den = 2 * cards[1].Width * cards[1].Height

-----------------------------------------------------------------------------
(* The image stages *)

\* resized := resize(grayImg, p.Width, p.Height)
CallResize(im, width, height) ==
    /\ op = "init"
    /\ op' = "resize"
    /\ img' = im
    /\ proc' = [Width |-> width, Height |-> height, ColorMode |-> 2]
    /\ \E d \in ResizeDims(im, width, height) :
         LET r == Resized(im, d)
         IN  grid' = r.grid /\ pixels' = r.samples /\ err' = r.err
    /\ UNCHANGED <<gen, matrix, cards, exp, out, svg, content, res, lineIdx, meta, restVars>>

\* dithered := p.applyDithering(resized)
CallApplyDithering(im, mode) ==
    /\ op = "init"
    /\ op' = "applyDithering"
    /\ img' = im
    /\ proc' = [Width |-> im.Width, Height |-> im.Height, ColorMode |-> mode]
    /\ LET r == ApplyDithering([Width |-> im.Width, Height |-> im.Height,
                                ColorMode |-> mode], im)
       IN  grid' = r.grid /\ pixels' = r.pixels
    /\ UNCHANGED <<gen, matrix, cards, exp, out, svg, content, res, lineIdx, meta, err, restVars>>

NextImage ==
    \/ op = "init" /\ \E im \in ResizeImages :
         \E width \in 0..MaxTarget : \E height \in 0..MaxTarget :
            CallResize(im, width, height)
    \/ op = "init" /\ \E im \in DitherImages : \E mode \in ColorModes :
         CallApplyDithering(im, mode)
    \/ Return

SpecImage == Init /\ [][NextImage]_vars

\* C17: for every input grid and every levels value in {2,4,8},
\* applyDithering returns a grid of the height and width of its input in
\* which every cell is 0 or 1, 1 exactly when the final working value of the
\* pixel is below 0.5.
C17_DitheringIsBinary ==
    op = "applyDithering"
    => /\ Len(grid) = img.Height
       /\ Len(pixels) = img.Height
       /\ \A y \in 1..img.Height :
            /\ Len(grid[y]) = img.Width
            /\ \A x \in 1..img.Width :
                 /\ grid[y][x] \in {0, 1}
                 /\ grid[y][x] = 1 <=> 2 * pixels[y][x] < DitherDen(proc.ColorMode)

\* a 3x2 image dithered to 8 levels gives holes and no-holes, and a final
\* working value strictly between 0 and 1
C17_Witness ==
    /\ op = "applyDithering"
    /\ proc.ColorMode = 8
    /\ img.Width = 3 /\ img.Height = 2
    /\ \E y \in 1..2 : \E x \in 1..3 : grid[y][x] = 1
    /\ \E y \in 1..2 : \E x \in 1..3 : grid[y][x] = 0
    /\ \E y \in 1..2 : \E x \in 1..3 :
         0 < pixels[y][x] /\ pixels[y][x] < DitherDen(8)


\* the source cell of every cell of the grid is the floor cell, inside the source
SamplesInsideSource ==
    \A y \in 1..Len(grid) : \A x \in 1..Len(grid[y]) :
        /\ pixels[y][x] = <<((x - 1) * img.Width) \div Len(grid[y]),
                            ((y - 1) * img.Height) \div Len(grid)>>
        /\ pixels[y][x][1] \in 0..(img.Width - 1)
        /\ pixels[y][x][2] \in 0..(img.Height - 1)

\* the grid has the target width and height, a derived one being at least 1
GridHasTargetSize ==
    /\ Len(grid) >= 1
    /\ proc.Height > 0 => Len(grid) = proc.Height
    /\ \A y \in 1..Len(grid) :
         /\ Len(grid[y]) >= 1
         /\ proc.Width > 0 => Len(grid[y]) = proc.Width

\* C18: for any source grid and any target width W and height H not both
\* unspecified, resize returns a grid of W x H cells (the unspecified one
\* derived), destination cell (x,y) samples source cell
\* (floor(x*srcW/W), floor(y*srcH/H)), no sampled index lies outside the
\* source, and a source of zero width or height yields a 1x1 grid instead of
\* a failure.  Stated for the calls in which no side is derived from a
\* division by zero.
C18_ResizeSamplesInsideSource ==
    (/\ op = "resize"
     /\ proc.Width > 0 \/ proc.Height > 0
     /\ proc.Height = 0 => img.Width > 0
     /\ proc.Width = 0 => img.Height > 0)
    => /\ err = NoErr
       /\ IF img.Width = 0 \/ img.Height = 0
          THEN Len(grid) = 1 /\ Len(grid[1]) = 1
          ELSE GridHasTargetSize /\ SamplesInsideSource

\* the height resize derives for a source of positive size
TruncatedHeight == Max1((proc.Width * img.Height) \div img.Width)

\* the width resize derives for a source of positive size
TruncatedWidth == Max1((proc.Height * img.Width) \div img.Height)

\* math.Round(W * srcHeight / srcWidth), at least 1
RoundedHeight == Max1((2 * proc.Width * img.Height + img.Width) \div (2 * img.Width))

RoundedWidth == Max1((2 * proc.Height * img.Width + img.Height) \div (2 * img.Height))

GroupOpens(s) == { k \in 1..Len(s) : s[k].el = "g" }


\* the positions of s that open the group of a card
CardGroupOpens(s) == { k \in GroupOpens(s) : "offsetY" \in DOMAIN s[k] }

\* the positions of s that open or close a group
GroupMarks(s) == { k \in 1..Len(s) : s[k].el \in {"g", "/g"} }

\* groups opened minus groups closed in s[a..b], M being the group marks of s
Depth(s, M, a, b) ==
    Cardinality({ k \in M : a <= k /\ k <= b /\ s[k].el = "g" })
    - Cardinality({ k \in M : a <= k /\ k <= b /\ s[k].el = "/g" })

\* the group opened at k is closed just before position stop and not earlier
ClosedBefore(s, M, k, stop) ==
    /\ s[stop - 1].el = "/g"
    /\ Depth(s, M, k, stop - 1) = 0
    /\ \A m \in M : (k <= m /\ m <= stop - 2) => Depth(s, M, k, m) >= 1

\* one group per card, in input order, each closed before the next one or the
\* end of the document, the i-th moved down by (i - 1) card heights and spacings
CardGroupsInOrder(s) ==
    LET K == CardGroupOpens(s)
        M == GroupMarks(s)
    IN  /\ Cardinality(K) = Len(cards)
        /\ \A k \in K :
             LET i == Cardinality({ j \in K : j < k }) + 1
                 later == { j \in K : j > k }
                 stop == IF later = {} THEN Len(s)
                         ELSE CHOOSE j \in later : \A j2 \in later : j <= j2
             IN  /\ s[k].id = cards[i].Number
                 /\ s[k].offsetY
                      = (i - 1) * (SVGCardHeight(exp, cards[1]) + CardSpacing) * MMToPixel
                 /\ ClosedBefore(s, M, k, stop)

\* C20 as stated: the document written by SVGExporter.ExportCards for N >= 1
\* cards contains exactly one group element per card, N groups in total, in
\* input order, each opened and closed before the next card's group starts,
\* the card at position i translated by i times a fixed per-card height plus
\* spacing.
C20_OneGroupPerCard ==
    (op = "SVGExportCards" /\ Len(cards) >= 1 /\ AllValid(cards))
    => /\ err = NoErr
       /\ CardGroupsInOrder(svg)
       /\ Cardinality(GroupOpens(svg)) = Len(cards)

\* C20 as the code has it: a returned ExportCards has written one card group
\* per card, in input order, each closed before the next starts, the i-th
\* moved down by (i - 1) times the first card's height plus spacing; with
\* ShowGrid every card group holds one more group, the grid, so the document
\* has 2N groups, and N without ShowGrid.  A call that panics in a card has
\* left that card's group open.
C20_OneCardGroupPerCard ==
    (op = "SVGExportCards" /\ Len(cards) >= 1)
    => /\ AllValid(cards) => err = NoErr
       /\ err = NoErr
            => /\ CardGroupsInOrder(svg)
               /\ Cardinality(GroupOpens(svg))
                    = IF exp.ShowGrid THEN 2 * Len(cards) ELSE Len(cards)
       /\ err # NoErr
            => /\ err.kind = "panic"
               /\ CardGroupOpens(svg) # {}
               /\ \A k \in CardGroupOpens(svg) :
                    (\A j \in CardGroupOpens(svg) : j <= k)
                    => Depth(svg, GroupMarks(svg), k, Len(svg)) >= 1

\* two valid cards exported with the grid: four groups, the second card's
\* group moved down
C20_Witness ==
    /\ op = "SVGExportCards"
    /\ err = NoErr
    /\ Len(cards) = 2
    /\ AllValid(cards)
    /\ exp.ShowGrid
    /\ Cardinality(GroupOpens(svg)) = 4
    /\ \E k \in CardGroupOpens(svg) :
         svg[k].id = cards[2].Number /\ svg[k].offsetY > 0


IsCircle(r) == r.el = "circle"

\* the circles of a document, in the order written
CirclesOf(s) == SelectSeq(s, IsCircle)

\* the number of cells of the cards before card i
RECURSIVE CellsBefore(_, _)
CellsBefore(cs, i) ==
    IF i <= 1 THEN 0
    ELSE CellsBefore(cs, i - 1) + cs[i - 1].Width * cs[i - 1].Height

\* the circle of cell (y, x) of card c is where and what the cell says
CircleMatchesCell(r, c, y, x) ==
    /\ r.cx = (CardPadding + (x - 1) * exp.HoleSpacing * exp.Scale) * MMToPixel
    /\ r.cy = (CardPadding + TextHeight + (y - 1) * exp.HoleSpacing * exp.Scale) * MMToPixel
    /\ IF c.Matrix[y][x] = 1
       THEN r.fill = "black" /\ r.r = exp.HoleRadius * exp.Scale * MMToPixel
       ELSE r.fill = "none" /\ r.stroke = "lightgray"
            /\ r.r < exp.HoleRadius * exp.Scale * MMToPixel

\* C21: for every valid card, the SVG export draws exactly one circle per
\* matrix cell, in row-major order: a filled black circle for each cell equal
\* to 1 and an unfilled light guide circle for each cell equal to 0, so the
\* filled circles number CountHoles and all circles Width*Height.
C21_OneCirclePerCell ==
    (op \in {"SVGExportCard", "SVGExportCards"} /\ Len(cards) >= 1 /\ AllValid(cards))
    => /\ err = NoErr
       /\ LET C == CirclesOf(svg)
          IN  /\ Len(C) = CellsBefore(cards, Len(cards) + 1)
              /\ \A i \in 1..Len(cards) :
                   LET c == cards[i]
                       first == CellsBefore(cards, i)
                   IN  /\ \A y \in 1..c.Height : \A x \in 1..c.Width :
                            CircleMatchesCell(C[first + (y - 1) * c.Width + x], c, y, x)
                       /\ Cardinality({ k \in 1..(c.Width * c.Height) :
                                          C[first + k].fill = "black" })
                            = CountHoles(c)

\* one valid card with holes and cells without, exported on its own
C21_Witness ==
    /\ op = "SVGExportCard"
    /\ err = NoErr
    /\ AllValid(cards)
    /\ \E k \in 1..Len(svg) : svg[k].el = "circle" /\ svg[k].fill = "black"
    /\ \E k \in 1..Len(svg) : svg[k].el = "circle" /\ svg[k].fill = "none"
    /\ CountHoles(cards[1]) > 0
    /\ CountHoles(cards[1]) < cards[1].Width * cards[1].Height


IsCaption(r) == r.el = "text" /\ r.fill = "black"

\* the circles of a document with their lengths as %.2f prints them
PrintedCircles(s) ==
    [k \in 1..Len(CirclesOf(s)) |->
        [CirclesOf(s)[k] EXCEPT !.cx = Fixed2(@), !.cy = Fixed2(@), !.r = Fixed2(@)]]

\* the texts of the captions of a document
CaptionTexts(s) ==
    [k \in 1..Len(SelectSeq(s, IsCaption)) |-> SelectSeq(s, IsCaption)[k].body]

\* C22: for every valid card and every exporter configuration (ShowNumbers,
\* Title, TotalCards, Scale), ExportCardTemplate renders the same visual
\* content as ExportCard: the same sequence of circles (position, radius and
\* fill, compared to two decimals) and the same caption text.
C22_TemplateMatchesDirect ==
    (op = "SVGExportCardTemplate" /\ AllValid(cards))
    => LET direct == ExportCard(exp, cards[1])
       IN  /\ err = NoErr
           /\ direct.err = NoErr
           /\ PrintedCircles(svg) = PrintedCircles(direct.svg)
           /\ CaptionTexts(svg) = CaptionTexts(direct.svg)


\* C25: for every input string, Parse terminates by returning either a
\* ParseResult or an error value; no input, whatever integer its 'Cards:'
\* line declares, makes it abort instead of returning.
C25_ParseAlwaysReturns ==
    op = "Parse"
    => /\ err.kind # "panic"
       /\ err = NoErr <=> ~res.isNil

-----------------------------------------------------------------------------
(* Card.Clone and Card.Invert on card objects: a *Card holds row references, *)
(* and the rows themselves live in heap                                       *)

\* the card value behind the object o
Deref(h, o) ==
    Card(o.Number, o.Width, o.Height, [y \in 1..Len(o.Matrix) |-> h[o.Matrix[y]]])

\* &Card{...} built from a matrix literal: its rows are allocated after h
NewObject(h, c) ==
    [heap |-> h \o c.Matrix,
     obj |-> Card(c.Number, c.Width, c.Height, [y \in 1..Len(c.Matrix) |-> Len(h) + y])]

\* make([]int, width) followed by copy(dst, src)
CopyRow(width, src) == [x \in 1..width |-> IF x <= Len(src) THEN src[x] ELSE 0]

\* a copy that keeps the row references of the original
CloneShallow(h, o) ==
    IF o.Height < 0 \/ (o.Height > 0 /\ o.Width < 0)
    THEN [heap |-> h, obj |-> NoCard, err |-> Panic("makeslice: len out of range")]
    ELSE IF Len(o.Matrix) < o.Height
    THEN [heap |-> h, obj |-> NoCard, err |-> Panic("index out of range")]
    ELSE [heap |-> h,
          obj |-> Card(o.Number, o.Width, o.Height, SubSeq(o.Matrix, 1, o.Height)),
          err |-> NoErr]

\* Card.Clone: Height new rows of Width cells, each filled by copy
Clone(h, o) ==
    IF o.Height < 0 \/ (o.Height > 0 /\ o.Width < 0)
    THEN [heap |-> h, obj |-> NoCard, err |-> Panic("makeslice: len out of range")]
    ELSE IF Len(o.Matrix) < o.Height
    THEN [heap |-> h, obj |-> NoCard, err |-> Panic("index out of range")]
    ELSE [heap |-> h \o [y \in 1..o.Height |-> CopyRow(o.Width, h[o.Matrix[y]])],
          obj |-> Card(o.Number, o.Width, o.Height, [y \in 1..o.Height |-> Len(h) + y]),
          err |-> NoErr]

InvertCellKept(v) == v

\* c.Matrix[y][x] = 1 - c.Matrix[y][x]
InvertCell(v) == 1 - v

\* the inner loop over one row: the first Width cells, as many as there are
InvertRow(row, width) ==
    [x \in 1..Len(row) |-> IF x <= width THEN InvertCell(row[x]) ELSE row[x]]

\* the outer loop from row y on; a row or a cell out of range panics with the
\* cells before it inverted
RECURSIVE InvertRows(_, _, _)
InvertRows(h, o, y) ==
    IF y > o.Height THEN [heap |-> h, err |-> NoErr]
    ELSE IF o.Width <= 0 THEN InvertRows(h, o, y + 1)
    ELSE IF y > Len(o.Matrix) THEN [heap |-> h, err |-> Panic("index out of range")]
    ELSE LET r == o.Matrix[y]
             h2 == [h EXCEPT ![r] = InvertRow(h[r], o.Width)]
         IN  IF Len(h[r]) < o.Width
             THEN [heap |-> h2, err |-> Panic("index out of range")]
             ELSE InvertRows(h2, o, y + 1)

\* Card.Invert
Invert(h, o) == InvertRows(h, o, 1)

\* the sizes of the cards cloned and inverted
CloneDims == { [Width |-> 2, Height |-> 1], [Width |-> 2, Height |-> 2] }

CloneCards ==
    { MakeCard(number, d, p, defect) :
        number \in {1, 5}, d \in CloneDims, p \in 0..(NumPatterns - 1),
        defect \in CardDefects \cup {"none"} }

\* the calls after which cards are written or inverted
CloneOps == {"Clone", "WriteClone", "WriteOriginal", "InvertClone", "InvertOriginal"}

\* original := &Card{Number: .., Width: .., Height: .., Matrix: ..}
NewCard(c) ==
    /\ op = "init"
    /\ op' = "NewCard"
    /\ heap' = NewObject(<<>>, c).heap
    /\ orig' = NewObject(<<>>, c).obj
    /\ UNCHANGED <<gen, matrix, cards, exp, out, svg, content, res, lineIdx, meta,
                   imageVars, clone, req, resp, inv, visit, err>>

\* clone := original.Clone()
CallClone ==
    /\ op = "NewCard"
    /\ op' = "Clone"
    /\ LET r == Clone(heap, orig)
       IN  heap' = r.heap /\ clone' = r.obj /\ err' = r.err
    /\ UNCHANGED <<gen, matrix, cards, exp, out, svg, content, res, lineIdx, meta,
                   imageVars, orig, req, resp, inv, visit>>

\* clone.Matrix[y][x] = v
WriteClone(y, x, v) ==
    /\ op \in CloneOps /\ err = NoErr
    /\ y \in 1..Len(clone.Matrix) /\ x \in 1..Len(heap[clone.Matrix[y]])
    /\ op' = "WriteClone"
    /\ heap' = [heap EXCEPT ![clone.Matrix[y]][x] = v]
    /\ UNCHANGED <<gen, matrix, cards, exp, out, svg, content, res, lineIdx, meta,
                   imageVars, orig, clone, req, resp, inv, visit, err>>

\* original.Matrix[y][x] = v
WriteOriginal(y, x, v) ==
    /\ op \in CloneOps /\ err = NoErr
    /\ y \in 1..Len(orig.Matrix) /\ x \in 1..Len(heap[orig.Matrix[y]])
    /\ op' = "WriteOriginal"
    /\ heap' = [heap EXCEPT ![orig.Matrix[y]][x] = v]
    /\ UNCHANGED <<gen, matrix, cards, exp, out, svg, content, res, lineIdx, meta,
                   imageVars, orig, clone, req, resp, inv, visit, err>>

\* clone.Invert()
CallInvertClone ==
    /\ op \in CloneOps /\ err = NoErr
    /\ op' = "InvertClone"
    /\ LET r == Invert(heap, clone)
       IN  heap' = r.heap /\ err' = r.err
    /\ UNCHANGED <<gen, matrix, cards, exp, out, svg, content, res, lineIdx, meta,
                   imageVars, orig, clone, req, resp, inv, visit>>

\* original.Invert(), on a card that was cloned or not
CallInvertOriginal ==
    /\ op \in CloneOps \cup {"NewCard"} /\ err = NoErr
    /\ op' = "InvertOriginal"
    /\ LET r == Invert(heap, orig)
       IN  heap' = r.heap /\ err' = r.err
    /\ UNCHANGED <<gen, matrix, cards, exp, out, svg, content, res, lineIdx, meta,
                   imageVars, orig, clone, req, resp, inv, visit>>

NextClone ==
    \/ op = "init" /\ \E c \in CloneCards : NewCard(c)
    \/ CallClone
    \/ \E y \in 1..2 : \E x \in 1..3 : \E v \in {0, 1} : WriteClone(y, x, v)
    \/ \E y \in 1..2 : \E x \in 1..3 : \E v \in {0, 1} : WriteOriginal(y, x, v)
    \/ CallInvertClone
    \/ CallInvertOriginal
    \/ Return

SpecClone == Init /\ [][NextClone]_vars

\* the row references of an object
RowsOf(o) == { o.Matrix[y] : y \in 1..Len(o.Matrix) }

\* what Clone returns: an equal card in rows of its own
ClonedApart ==
    /\ err = NoErr
    /\ Deref(heap, clone) = Deref(heap, orig)
    /\ RowsOf(clone) \cap RowsOf(orig) = {}

\* a write or an Invert through one card leaves the other card as it was
OtherCardUnchanged ==
    /\ op' \in {"WriteClone", "InvertClone"} => Deref(heap, orig)' = Deref(heap, orig)
    /\ op' \in {"WriteOriginal", "InvertOriginal"}
         => Deref(heap, clone)' = Deref(heap, clone)

CellsFlipped(a, b) ==
    /\ Len(b.Matrix) = Len(a.Matrix)
    /\ \A y \in 1..Len(a.Matrix) :
         /\ Len(b.Matrix[y]) = Len(a.Matrix[y])
         /\ \A x \in 1..Len(a.Matrix[y]) : b.Matrix[y][x] = 1 - a.Matrix[y][x]

\* what a step original.Invert() does to a card that passes Validate
InvertsValidCard ==
    (op' = "InvertOriginal" /\ Validate(Deref(heap, orig)) = NoErr)
    => LET a == Deref(heap, orig)
           b == Deref(heap, orig)'
       IN  /\ err' = NoErr
           /\ orig' = orig
           /\ b.Number = a.Number /\ b.Width = a.Width /\ b.Height = a.Height
           /\ CellsFlipped(a, b)
           /\ Validate(b) = NoErr
           /\ CountHoles(b) = a.Width * a.Height - CountHoles(a)
           /\ Deref(Invert(heap', orig').heap, orig') = a

\* C24: for every valid card, Invert replaces each cell v by 1-v in place and
\* leaves Number, Width and Height unchanged; the card still passes Validate,
\* its hole count becomes Width*Height minus the previous count, and applying
\* Invert twice restores the original matrix.
C24_InvertFlipsInPlace == [][InvertsValidCard]_vars

\* a valid card with one hole in two cells or more was inverted
C24_Witness ==
    /\ op = "InvertOriginal"
    /\ err = NoErr
    /\ Validate(Deref(heap, orig)) = NoErr
    /\ CountHoles(Deref(heap, orig)) = orig.Width * orig.Height - 1
    /\ orig.Width * orig.Height >= 2


-----------------------------------------------------------------------------
(* The request handlers: a request is its method, whether its form parses and *)
(* holds a file, its colorMode and format values, and what the uploaded image *)
(* leads to; a response is the status written and the ColorMode the           *)
(* Processor was built with (0 when none was built)                           *)

\* strconv.Atoi: an optional sign and digits, nothing else
Atoi(s) ==
    LET signed == Len(s) >= 1 /\ s[1] \in {"+", "-"}
        first == IF signed THEN 2 ELSE 1
    IN  IF first > Len(s) \/ \E i \in first..Len(s) : ~IsDigit(s[i])
        THEN [ok |-> FALSE, val |-> 0]
        ELSE [ok |-> TRUE,
              val |-> IF signed /\ s[1] = "-" THEN 0 - DigitsValue(s, first, Len(s), 0)
                      ELSE DigitsValue(s, first, Len(s), 0)]

\* image.ValidateColorMode
ValidateColorMode(mode) ==
    IF mode # 2 /\ mode # 4 /\ mode # 8 THEN [kind |-> "colormode", mode |-> mode]
    ELSE NoErr

\* colorModeStr := r.FormValue("colorMode"); if colorModeStr == "" { "2" }
ColorModeStr(r) == IF r.colorMode = <<>> THEN <<"2">> ELSE r.colorMode

\* err != nil || image.ValidateColorMode(colorMode) != nil
ColorModeRejected(r) ==
    \/ ~Atoi(ColorModeStr(r)).ok
    \/ ValidateColorMode(Atoi(ColorModeStr(r)).val) # NoErr

Reply(status, mode) == [status |-> status, colorMode |-> mode]

\* the handler from processor.Process on, colorMode being decided
RunPipeline(r, mode) ==
    IF r.image = "undecodable" THEN Reply(400, mode)
    ELSE IF r.image = "empty" THEN Reply(400, mode)
    ELSE IF r.image = "mismatch" THEN Reply(500, mode)
    ELSE Reply(200, mode)

\* the steps all three handlers begin with
BeforeColorMode(r) ==
    IF r.method # "POST" THEN Reply(405, 0)
    ELSE IF ~r.form THEN Reply(400, 0)
    ELSE IF ~r.file THEN Reply(400, 0)
    ELSE Reply(0, 0)

\* Handler.UploadHandler
UploadHandler(r) ==
    IF BeforeColorMode(r).status # 0 THEN BeforeColorMode(r)
    ELSE IF ColorModeRejected(r) THEN Reply(400, 0)
    ELSE IF r.format \notin {"", "svg", "pdf"} THEN Reply(400, 0)
    ELSE RunPipeline(r, Atoi(ColorModeStr(r)).val)

\* Handler.PreviewHandler
PreviewHandler(r) ==
    IF BeforeColorMode(r).status # 0 THEN BeforeColorMode(r)
    ELSE IF ColorModeRejected(r) THEN Reply(400, 0)
    ELSE RunPipeline(r, Atoi(ColorModeStr(r)).val)

\* Handler.InfoHandler: a rejected colorMode becomes 2
InfoHandler(r) ==
    IF BeforeColorMode(r).status # 0 THEN BeforeColorMode(r)
    ELSE IF ColorModeRejected(r) THEN RunPipeline(r, 2)
    ELSE RunPipeline(r, Atoi(ColorModeStr(r)).val)

Serve(r) ==
    IF r.handler = "upload" THEN UploadHandler(r)
    ELSE IF r.handler = "preview" THEN PreviewHandler(r)
    ELSE InfoHandler(r)

\* the colorMode form values sent
ColorModeTexts ==
    { <<>>, <<"2">>, <<"4">>, <<"8">>, <<"+", "4">>, <<"3">>, <<"0">>, <<"-", "2">>,
      <<"1", "6">>, <<"x">>, <<"2", ".", "0">>, <<" ", "2">> }

Requests ==
    [handler : {"upload", "preview", "info"}, method : {"POST", "GET"},
     form : BOOLEAN, file : BOOLEAN, colorMode : ColorModeTexts,
     format : {"", "svg", "pdf", "png"},
     image : {"undecodable", "empty", "mismatch", "ok"}]

\* the server calls the handler of the request's path
ServeRequest(r) ==
    /\ op = "init"
    /\ op' = "ServeRequest"
    /\ req' = r
    /\ resp' = Serve(r)
    /\ UNCHANGED <<gen, matrix, cards, exp, out, svg, content, res, lineIdx, meta,
                   imageVars, heap, orig, clone, inv, visit, err>>

NextServe ==
    \/ op = "init" /\ \E r \in Requests : ServeRequest(r)
    \/ Return

SpecServe == Init /\ [][NextServe]_vars

\* the colorMode the request supplies is an integer in {2, 4, 8}
SuppliesValidColorMode(r) == Atoi(r.colorMode).ok /\ Atoi(r.colorMode).val \in {2, 4, 8}

\* C26: every request operation that accepts a colorMode (upload, preview,
\* info) rejects a supplied value that is not an integer in {2,4,8} with an
\* error response and never runs the pipeline with a substituted default.
C26_InvalidColorModeRejected ==
    (op = "ServeRequest" /\ req.colorMode # <<>> /\ ~SuppliesValidColorMode(req))
    => /\ resp.status >= 400
       /\ resp.colorMode = 0


-----------------------------------------------------------------------------
(* Two pipeline invocations side by side.  Every stage reads its input from   *)
(* the object the stage before it allocated and allocates its own output; an  *)
(* invocation holds only references.                                           *)

\* the generator of the invocations: cards of 3 x 1, so that the Processor's
\* width is 3
PipelineDims == [Width |-> 3, Height |-> 1]

\* every stage stores its output in the same object
AllocReusing(h, v) ==
    [heap |-> IF h = <<>> THEN <<v>> ELSE [h EXCEPT ![1] = v], ref |-> 1]

\* image.NewGray, make, &Card{...}, bytes.Buffer: a new object
Alloc(h, v) == [heap |-> Append(h, v), ref |-> Len(h) + 1]

\* an invocation about to start on its own image, color mode and last stage
NewInvocation(im, mode, last) ==
    [pc |-> "resize", img |-> im, mode |-> mode, last |-> last,
     resized |-> 0, matrix |-> 0, cards |-> 0, result |-> 0]

\* resized := resize(grayImg, p.Width, p.Height), the height being 0
ResizeStage(im) ==
    LET d == CHOOSE d \in ResizeDims(im, PipelineDims.Width * PipelineDims.Height, 0) : TRUE
    IN  [Width |-> d.Width, Height |-> d.Height, Pix |-> Resized(im, d).grid]

\* dithered := p.applyDithering(resized)
DitherStage(im, mode) ==
    ApplyDithering([Width |-> im.Width, Height |-> 0, ColorMode |-> mode], im).grid

\* cards, err := generator.Generate(matrix)
GenerateStage(m) == Generate(PipelineDims, m)

\* GenerateMetadata(cards) or exporter.ExportCards(cards, &output), unless
\* Generate failed
FinishStage(g, last) ==
    IF g.err # NoErr THEN [kind |-> "error", err |-> g.err]
    ELSE IF last = "meta"
    THEN [kind |-> "meta", meta |-> GenerateMetadata(g.cards).meta,
          err |-> GenerateMetadata(g.cards).err]
    ELSE [kind |-> "svg", svg |-> SVGExportCards(NewSVGExporter, g.cards).svg,
          err |-> SVGExportCards(NewSVGExporter, g.cards).err]

\* the result of an invocation that runs alone
RunAlone(v) ==
    FinishStage(GenerateStage(DitherStage(ResizeStage(v.img), v.mode)), v.last)

\* the images uploaded
PipelineImages ==
    { GrayImage(s[1], s[2], s[3], 1) : s \in { <<3, 1, 0>>, <<3, 2, 0>>, <<2, 1, 1>> } }

PipelineInputs ==
    { NewInvocation(im, mode, last) :
        im \in PipelineImages, mode \in {2, 4}, last \in {"meta", "svg"} }

\* two requests arrive
StartInvocations(a, b) ==
    /\ op = "init"
    /\ op' = "Serving"
    /\ inv' = <<a, b>>
    /\ UNCHANGED <<gen, matrix, cards, exp, out, svg, content, res, lineIdx, meta,
                   imageVars, heap, orig, clone, req, resp, visit, err>>

StepResize(i) ==
    /\ op = "Serving" /\ inv[i].pc = "resize"
    /\ LET a == Alloc(heap, ResizeStage(inv[i].img))
       IN  /\ heap' = a.heap
           /\ inv' = [inv EXCEPT ![i].pc = "dither", ![i].resized = a.ref]
    /\ UNCHANGED <<op, gen, matrix, cards, exp, out, svg, content, res, lineIdx, meta,
                   imageVars, orig, clone, req, resp, visit, err>>

StepDither(i) ==
    /\ op = "Serving" /\ inv[i].pc = "dither"
    /\ LET a == Alloc(heap, DitherStage(heap[inv[i].resized], inv[i].mode))
       IN  /\ heap' = a.heap
           /\ inv' = [inv EXCEPT ![i].pc = "generate", ![i].matrix = a.ref]
    /\ UNCHANGED <<op, gen, matrix, cards, exp, out, svg, content, res, lineIdx, meta,
                   imageVars, orig, clone, req, resp, visit, err>>

StepGenerate(i) ==
    /\ op = "Serving" /\ inv[i].pc = "generate"
    /\ LET a == Alloc(heap, GenerateStage(heap[inv[i].matrix]))
       IN  /\ heap' = a.heap
           /\ inv' = [inv EXCEPT ![i].pc = "finish", ![i].cards = a.ref]
    /\ UNCHANGED <<op, gen, matrix, cards, exp, out, svg, content, res, lineIdx, meta,
                   imageVars, orig, clone, req, resp, visit, err>>

StepFinish(i) ==
    /\ op = "Serving" /\ inv[i].pc = "finish"
    /\ LET a == Alloc(heap, FinishStage(heap[inv[i].cards], inv[i].last))
       IN  /\ heap' = a.heap
           /\ inv' = [inv EXCEPT ![i].pc = "done", ![i].result = a.ref]
    /\ UNCHANGED <<op, gen, matrix, cards, exp, out, svg, content, res, lineIdx, meta,
                   imageVars, orig, clone, req, resp, visit, err>>

NextPipeline ==
    \/ op = "init" /\ \E a \in PipelineInputs : \E b \in PipelineInputs :
         StartInvocations(a, b)
    \/ \E i \in 1..2 : StepResize(i)
    \/ \E i \in 1..2 : StepDither(i)
    \/ \E i \in 1..2 : StepGenerate(i)
    \/ \E i \in 1..2 : StepFinish(i)
    \/ Return

SpecPipeline == Init /\ [][NextPipeline]_vars

\* the objects an invocation has allocated
OwnedBy(v) == {v.resized, v.matrix, v.cards, v.result} \ {0}

\* C27: two pipeline invocations running concurrently on independently owned
\* inputs read and write no common mutable state: under every interleaving of
\* their steps each invocation returns the same result as when it runs alone.
C27_InvocationsIndependent ==
    op = "Serving"
    => /\ OwnedBy(inv[1]) \cap OwnedBy(inv[2]) = {}
       /\ \A i \in 1..2 :
            inv[i].pc = "done" => heap[inv[i].result] = RunAlone(inv[i])

\* both invocations are done, their steps interleaved, their results different
C27_Witness ==
    /\ op = "Serving"
    /\ inv[1].pc = "done" /\ inv[2].pc = "done"
    /\ inv[1].resized < inv[2].resized
    /\ inv[2].matrix < inv[1].matrix
    /\ inv[1].cards < inv[2].cards
    /\ heap[inv[1].result] # heap[inv[2].result]
    /\ heap[inv[1].result].kind = "meta" /\ heap[inv[2].result].kind = "svg"


-----------------------------------------------------------------------------
(* applyDithering cell by cell: visit is the number of cells quantized *)

\* the working grid is filled from the image
StartDithering(im, mode) ==
    /\ op = "init"
    /\ op' = "dithering"
    /\ img' = im
    /\ proc' = [Width |-> im.Width, Height |-> im.Height, ColorMode |-> mode]
    /\ pixels' = DitherStart(im, mode)
    /\ visit' = 0
    /\ UNCHANGED <<gen, matrix, cards, exp, out, svg, content, res, lineIdx, meta,
                   grid, heap, orig, clone, req, resp, inv, err>>

\* one pass of the inner loop: the next cell in row-major order
DitherNextCell ==
    /\ op = "dithering"
    /\ visit < img.Width * img.Height
    /\ pixels' = DitherStep(pixels, img.Width, img.Height,
                            (visit % img.Width) + 1, (visit \div img.Width) + 1,
                            proc.ColorMode)
    /\ visit' = visit + 1
    /\ UNCHANGED <<op, gen, matrix, cards, exp, out, svg, content, res, lineIdx, meta,
                   img, proc, grid, heap, orig, clone, req, resp, inv, err>>

\* the loops are over: the working grid is thresholded and returned
FinishDithering ==
    /\ op = "dithering"
    /\ visit = img.Width * img.Height
    /\ op' = "dithered"
    /\ grid' = [y \in 1..img.Height |-> [x \in 1..img.Width |->
                  Threshold(pixels[y][x], proc.ColorMode)]]
    /\ UNCHANGED <<gen, matrix, cards, exp, out, svg, content, res, lineIdx, meta,
                   img, proc, pixels, heap, orig, clone, req, resp, inv, visit, err>>

NextDither ==
    \/ op = "init" /\ \E im \in DitherImages : \E mode \in ColorModes :
         StartDithering(im, mode)
    \/ DitherNextCell
    \/ FinishDithering
    \/ Return

SpecDither == Init /\ [][NextDither]_vars

\* sixteen times the part of the error e that cell (xx, yy) gets from cell (x, y)
SixteenthsOf(e, x, y, xx, yy) ==
    IF yy = y /\ xx = x + 1 THEN 7 * e
    ELSE IF yy = y + 1 /\ xx = x - 1 THEN 3 * e
    ELSE IF yy = y + 1 /\ xx = x THEN 5 * e
    ELSE IF yy = y + 1 /\ xx = x + 1 THEN e
    ELSE 0

\* a step of the loop quantizes the next cell in row-major order, adds the
\* shares of its error to the four neighbours inside the grid, and changes
\* no other cell
DiffusesForward ==
    (op = "dithering" /\ visit' = visit + 1)
    => LET w == img.Width
           h == img.Height
           x == (visit % w) + 1
           y == (visit \div w) + 1
           e == pixels[y][x] - pixels'[y][x]
       IN  /\ pixels'[y][x] % (DitherDen(proc.ColorMode) \div (proc.ColorMode - 1)) = 0
           /\ \A yy \in 1..h : \A xx \in 1..w :
                /\ (yy # y \/ xx # x)
                     => 16 * (pixels'[yy][xx] - pixels[yy][xx])
                          = SixteenthsOf(e, x, y, xx, yy)
                /\ (yy - 1) * w + xx <= visit => pixels'[yy][xx] = pixels[yy][xx]

\* C28: in applyDithering cells are visited in row-major order and the
\* quantization error of a cell is added only to in-bounds cells not yet
\* visited (right 7/16, lower-left 3/16, lower 5/16, lower-right 1/16); the
\* share of a neighbour outside the grid is dropped, and the value stored in
\* a cell is never changed again after that cell has been quantized.
C28_ErrorGoesForward == [][DiffusesForward]_vars

\* the first cell of a 3 x 2 image left an error, and its lower neighbour
\* has received 5/16 of it
C28_Witness ==
    /\ op = "dithering"
    /\ img.Width = 3 /\ img.Height = 2
    /\ visit = 1
    /\ pixels[1][1] # DitherStart(img, proc.ColorMode)[1][1]
    /\ 16 * (pixels[2][1] - DitherStart(img, proc.ColorMode)[2][1])
         = 5 * (DitherStart(img, proc.ColorMode)[1][1] - pixels[1][1])


\* ---------------------------------------------------------------------------
\* Generate on ragged matrices
\* ---------------------------------------------------------------------------

\* every cell of the source matrix is 0 or 1
BinaryMatrix(m) ==
    \A k \in 1..Len(m) : \A i \in 1..Len(m[k]) : m[k][i] \in {0, 1}

\* C29: for every non-empty input matrix, including one whose rows after the
\* first differ in length from the first row, Generate either returns an error
\* or returns cards that all pass Validate; it never reads a source row at an
\* index beyond that row's length.
C29_GenerateSafeOnRagged ==
    (op = "Generate" /\ Len(matrix) > 0 /\ BinaryMatrix(matrix))
        => /\ err.kind # "panic"
           /\ err = NoErr => AllValid(cards)


\* ---------------------------------------------------------------------------
\* The 'Holes per card:' header
\* ---------------------------------------------------------------------------

\* the third line is exactly the prefix and one integer
DeclaresHoles(lines) ==
    /\ Len(lines) >= 3
    /\ HasPrefix(lines[3], HolesPrefix)
    /\ ScanAfter(lines[3], HolesPrefix).ok
    /\ lines[3] = HolesPrefix \o FormatInt(ScanAfter(lines[3], HolesPrefix).val)

\* the same lines with another integer in the third line
WithHoles(lines, h) == [lines EXCEPT ![3] = HolesPrefix \o FormatInt(h)]

\* the integers the declared one is replaced by
OtherHoles == {0, CardWidth * CardHeight}

\* what Parse returned, the HolesPerCard field left out
OutcomeApartFromHoles(r) ==
    [err |-> r.err, res |-> [r.res EXCEPT !.HolesPerCard = 0]]

ParsedCardsAreStandard ==
    \A i \in 1..Len(res.Cards) :
        /\ res.Cards[i].Width = CardWidth
        /\ res.Cards[i].Height = CardHeight
        /\ Validate(res.Cards[i]) = NoErr

\* C30: every card in a successful Parse result has Width 26 and Height 8 and
\* passes Validate, and the integer declared in the 'Holes per card:' header
\* has no effect on which inputs are accepted or on the cards returned: two
\* inputs that differ only in that integer give the same outcome apart from
\* the HolesPerCard field.
C30_HolesHeaderIgnored ==
    op = "Parse" =>
       /\ err = NoErr => ParsedCardsAreStandard
       /\ LET lines == Split(content)
          IN  DeclaresHoles(lines) =>
                \A h \in OtherHoles :
                    OutcomeApartFromHoles(ParseLines(WithHoles(lines, h)))
                      = OutcomeApartFromHoles([err |-> err, res |-> res])

\* two cards were parsed from a text that declares 7 holes per card
C30_Witness ==
    /\ op = "Parse" /\ err = NoErr
    /\ DeclaresHoles(Split(content))
    /\ res.HolesPerCard = 7
    /\ Len(res.Cards) = 2
    /\ res.Cards[2].Width = CardWidth /\ res.Cards[2].Height = CardHeight
    /\ ParseLines(WithHoles(Split(content), 0)).res.HolesPerCard = 0

=============================================================================
